---- MODULE Spec2Model ----
(***************************************************************************)
(* A model of the coordination layer of hephaestus-cli:                    *)
(*   - the Task Store       (src/src/hephaestus/task_manager.py)           *)
(*   - the Mailbox Protocol (src/src/hephaestus/communication.py, Message) *)
(*   - the Mailbox Store    (communication.py, CommunicationManager)       *)
(*   - the Task Distributor (src/src/hephaestus/task_distributor.py)       *)
(*   - the Session Supervisor (src/src/hephaestus/session_manager.py)      *)
(*   - the Process Supervisor (src/src/hephaestus/agent_controller.py)     *)
(*   - the Health Monitor     (src/src/hephaestus/health_monitor.py)       *)
(*   - the start of the agents in their panes (session_manager.py,        *)
(*     _start_agent_in_pane) next to the notifications of                  *)
(*     src/src/hephaestus/agent_communicator.py                            *)
(* Each component has its own specification (SpecTask, SpecCrash, ...)     *)
(* over the shared variables; a specification leaves the variables of the  *)
(* components it does not use at their initial values.                     *)
(***************************************************************************)
EXTENDS Integers, Sequences, FiniteSets, TLC

(***************************************************************************)
(* Bounds of the model.                                                    *)
(***************************************************************************)
MaxTasks == 1
MaxTime == 2
MaxBody == 3
MaxSends == 2
MaxIter == 2
WorkerCount == 2
MaxStarts == 1
MaxPid == 1
RetryAttempts == 2
MaxQueue == 3

\* program constants: the limits of check_agent_health
CpuLimit == 90
MemoryLimitMb == 2048

VARIABLES
    tasks,      \* TaskManager._tasks: task id -> Task
    disk,       \* tasks/<dir>/<id>.json: dir -> (task id -> file content)
    nextId,     \* the next fresh task id (uuid4 never repeats)
    now,        \* time.time()
    op,         \* the name of the last Task Store call
    ret,        \* what the last Task Store call returned (True / False)
    pc,         \* position inside a call that is in progress (SpecCrash)
    committed   \* ids whose create() returned and that were not deleted

taskVars == <<tasks, disk, nextId, now, op, ret, pc, committed>>

VARIABLES
    msg,        \* a Message object held by a caller
    orig,       \* the body that Message was constructed with
    dec         \* the result of Message.from_markdown(msg.to_markdown())

msgVars == <<msg, orig, dec>>

VARIABLES
    mbox,       \* communication/<dir>/<agent>/<id>_<type>.md: path -> text
    sentAt,     \* path -> the Message send_message last wrote there in full
    nSent,      \* the number of send_message calls so far
    mailOp,     \* the name of the last Mailbox Store call
    mailArg,    \* the agent and the type filter of that call
    mailRet,    \* the list the last receive_messages returned
    mailOk,     \* what the last send_message / delete_message returned
    wr          \* a send_message that is between open() and close()

mailVars == <<mbox, sentAt, nSent, mailOp, mailArg, mailRet, mailOk, wr>>

VARIABLES
    agentFiles,   \* the files the agents write themselves under the work directory
    paneHost,     \* tmux as the distributor finds it: "up", "down" or "missing"
    assignments,  \* TaskDistributor.assignments: task_id -> TaskAssignment
    notified,     \* task_id -> the number of notifications sent for it
    iteration,    \* the rounds of monitor_and_distribute_tasks done so far
    running,      \* monitor_and_distribute_tasks has not ended
    distOp        \* the name of the last step of the distributor

distVars == <<agentFiles, paneHost, assignments, notified, iteration, running, distOp>>

VARIABLES
    tmuxFault,            \* the error a call to the tmux server raises now
    tmuxSession,          \* a tmux session of the configured name is alive
    tmux_available,       \* SessionManager.tmux_available
    mode,                 \* SessionManager.mode: "tmux" or "headless"
    tmux_failure_reason,  \* SessionManager._tmux_failure_reason
    procs,                \* the PIDs of the background agents that are alive
    nextPid,              \* the PID the next spawned process gets
    stateFile,            \* cache/headless_session.json
    spawned,              \* the agents the last call spawned, in order
    sessOp,               \* the name of the last Session Supervisor call
    sessRet,              \* what the last session_exists() returned
    sessRaised,           \* the last call raised
    reaped,               \* the last session_exists() removed a stale state file
    signalled,            \* the PIDs the last kill_session() sent SIGTERM to
    view                  \* what the last attach() showed

sessVars == <<tmuxFault, tmuxSession, tmux_available, mode,
              tmux_failure_reason, procs, nextPid, stateFile, spawned, sessOp,
              sessRet, sessRaised, reaped, signalled, view>>

VARIABLES
    agentsFile,   \* cache/agent_states/agents.json: agent id -> AgentInfo
    agents,       \* AgentController.agents of each supervisor: agent id -> AgentInfo
    livePids,     \* the PIDs of the processes that are running
    registered,   \* the agents registered and not unregistered since
    regOp         \* the name of the last Process Supervisor call

regVars == <<agentsFile, agents, livePids, registered, regOp>>

VARIABLES
    health_checks,  \* HealthMonitor._health_checks: agent id -> HealthCheck
    error_records,  \* HealthMonitor._error_records: agent id -> list of ErrorRecord
    errorFiles,     \* cache/error_records/<agent>.json: agent id -> list of ErrorRecord
    recoveries,     \* the attempt_recovery calls so far, as <<agent, kind>>
    hmRunning,      \* HealthMonitor._running
    hc,             \* the HealthCheck the last check_agent_health returned
    hmOp            \* the name of the last Health Monitor call

healthVars == <<health_checks, error_records, errorFiles, recoveries, hmRunning,
                hc, hmOp>>

VARIABLES
    paneMode,      \* the mode create_session starts the agents in
    agentKind,     \* config.agent_type
    personaFile,   \* the persona file of the roles exists
    paneTitle,     \* slot -> the title of the agent's pane is set
    agentStarted,  \* slot -> the agent command was started
    agentInput,    \* slot -> what the agent process has received, in order
    startPc,       \* create_session: the slot at work and its next step
    paneOp         \* the name of the last step

paneVars == <<paneMode, agentKind, personaFile, paneTitle, agentStarted,
              agentInput, startPc, paneOp>>

VARIABLES
    listed,        \* the arguments and the result of the last list_tasks
    nextTask,      \* what the last get_next_pending_task returned
    taken,         \* the tasks taken by get_next_pending_task and assigned, in order
    removed        \* what the last cleanup_old_tasks returned

queueVars == <<listed, nextTask, taken, removed>>

VARIABLES
    initialized,   \* the work directory .hephaestus-work exists
    cliSession,    \* session_manager.session_exists()
    envAgent,      \* agent type of config.yaml and of the persona directory
    created,       \* calls of create_session by the last command
    attached,      \* calls of attach by the last command
    exitCode,      \* exit code of the last command
    cliArgs        \* options of the last command

cliVars == <<initialized, cliSession, envAgent, created, attached, exitCode, cliArgs>>

VARIABLES
    monStatus      \* the summary monitor_command took from get_status_summary()

monVars == <<monStatus>>

VARIABLES
    loopPc,        \* where the coroutine monitor_agents() is
    stopCalled     \* stop() was called

loopVars == <<loopPc, stopCalled>>

VARIABLES
    deleters,      \* delete_message: where each consumer's call is, and what it returned
    trueReturns,   \* the calls of delete_message(agent, id) that returned True
    sends          \* the messages sent with an id into an agent's mailbox

delVars == <<deleters, trueReturns, sends>>

VARIABLES
    cleanupRet     \* cleanup_dead_agents: the count it returned

reapVars == <<cleanupRet>>

VARIABLES
    wrap,          \* the wrapper process of each background agent: where its script is, and its stop flag
    killed         \* the PIDs the state file recorded when kill_session removed it

wrapVars == <<wrap, killed>>

VARIABLES
    tasksOther     \* TaskManager._tasks of a second instance on the same work directory

otherVars == <<tasksOther>>

vars == <<taskVars, msgVars, mailVars, distVars, sessVars, regVars, healthVars,
          paneVars, queueVars,
            cliVars,
            monVars,
            loopVars,
            delVars,
            reapVars,
            wrapVars,
            otherVars>>

\* what the actions of one component leave alone
notTask == <<msgVars, mailVars, distVars, sessVars, regVars, healthVars,
            paneVars, queueVars,
            cliVars,
            monVars,
            loopVars,
            delVars,
            reapVars,
            wrapVars,
            otherVars>>

notMsg == <<taskVars, mailVars, distVars, sessVars, regVars, healthVars,
            paneVars, queueVars,
            cliVars,
            monVars,
            loopVars,
            delVars,
            reapVars,
            wrapVars,
            otherVars>>

notMail == <<taskVars, msgVars, distVars, sessVars, regVars, healthVars,
            paneVars, queueVars,
            cliVars,
            monVars,
            loopVars,
            delVars,
            reapVars,
            wrapVars,
            otherVars>>

notDist == <<taskVars, msgVars, mailVars, sessVars, regVars, healthVars,
            paneVars, queueVars,
            cliVars,
            monVars,
            loopVars,
            delVars,
            reapVars,
            wrapVars,
            otherVars>>

notSess == <<taskVars, msgVars, mailVars, distVars, regVars, healthVars,
            paneVars, queueVars,
            cliVars,
            monVars,
            loopVars,
            delVars,
            reapVars,
            wrapVars,
            otherVars>>

notReg == <<taskVars, msgVars, mailVars, distVars, sessVars, healthVars,
            paneVars, queueVars,
            cliVars,
            monVars,
            loopVars,
            delVars,
            reapVars,
            wrapVars,
            otherVars>>

\* the Health Monitor works on the registry of its Process Supervisor
notHealth == <<taskVars, msgVars, mailVars, distVars, sessVars, paneVars, queueVars,
            cliVars,
            monVars,
            loopVars,
            delVars,
            reapVars,
            wrapVars,
            otherVars>>

notPane == <<taskVars, msgVars, mailVars, distVars, sessVars, regVars, healthVars, queueVars,
            cliVars,
            monVars,
            loopVars,
            delVars,
            reapVars,
            wrapVars,
            otherVars>>

notQueue == <<taskVars, msgVars, mailVars, distVars, sessVars, regVars, healthVars, paneVars,
            cliVars,
            monVars,
            loopVars,
            delVars,
            reapVars,
            wrapVars,
            otherVars>>

notCli == <<taskVars, msgVars, mailVars, distVars, sessVars, regVars, healthVars, paneVars, queueVars,
            monVars,
            loopVars,
            delVars,
            reapVars,
            wrapVars,
            otherVars>>

notMon == <<taskVars, msgVars, mailVars, distVars, sessVars, regVars, healthVars, paneVars, queueVars, cliVars,
            loopVars,
            delVars,
            reapVars,
            wrapVars,
            otherVars>>

notLoop == <<taskVars, msgVars, mailVars, distVars, sessVars, regVars, healthVars, paneVars, queueVars, cliVars, monVars,
            delVars,
            reapVars,
            wrapVars,
            otherVars>>

notDel == <<taskVars, msgVars, mailVars, distVars, sessVars, regVars, healthVars, paneVars, queueVars, cliVars, monVars, loopVars,
            reapVars,
            wrapVars,
            otherVars>>

notReap == <<taskVars, msgVars, mailVars, distVars, sessVars, regVars, healthVars, paneVars, queueVars, cliVars, monVars, loopVars, delVars,
            wrapVars,
            otherVars>>

notWrap == <<taskVars, msgVars, mailVars, distVars, sessVars, regVars, healthVars, paneVars, queueVars, cliVars, monVars, loopVars, delVars, reapVars,
            otherVars>>

notOther == <<taskVars, msgVars, mailVars, distVars, sessVars, regVars, healthVars, paneVars, queueVars, cliVars, monVars, loopVars, delVars, reapVars, wrapVars>>

(***************************************************************************)
(* Generic helpers for Python dicts and directories, modelled as           *)
(* functions whose domain is the set of keys present.                      *)
(***************************************************************************)
Put(f, k, v) == [x \in (DOMAIN f) \cup {k} |-> IF x = k THEN v ELSE f[x]]

Remove(f, k) == [x \in (DOMAIN f) \ {k} |-> f[x]]

EmptyMap == [x \in {} |-> TRUE]

(***************************************************************************)
(* Task Store: src/src/hephaestus/task_manager.py                          *)
(***************************************************************************)
TaskIds == 1..MaxTasks

TaskStatus == <<"pending", "in_progress", "completed", "failed", "cancelled">>

StatusSet == {TaskStatus[i] : i \in 1..Len(TaskStatus)}

TerminalStatuses == {"completed", "failed", "cancelled"}

TaskPriority == {"high", "medium", "low"}

Dirs == {"pending", "in_progress", "completed"}

\* the order in which _load_all_tasks scans the directories
DirOrder == <<"pending", "in_progress", "completed">>

Workers == {"worker-1", "worker-2"}

NoAgent == "none"

\* Optional[float] = None for started_at / completed_at
NoTime == 0

NoText == "none"

\* Task(...) as the dataclass builds it for create_task
NewTask(id, prio, t) ==
    [id |-> id, priority |-> prio, status |-> "pending", assigned_to |-> NoAgent,
     created_at |-> t, started_at |-> NoTime, completed_at |-> NoTime,
     result |-> NoText, error |-> NoText]

\* TaskManager._get_task_file: the directory of a status
GetTaskDir(status) ==
    IF status = "pending" THEN "pending"
    ELSE IF status = "in_progress" THEN "in_progress"
    ELSE IF status \in {"completed", "failed", "cancelled"} THEN "completed"
    ELSE "pending"

\* Task.to_dict + json.dump: a complete JSON document of the task
ToJson(t) == [complete |-> TRUE, data |-> t]

\* what open(path, "w") leaves before the document is written and flushed
Truncated(t) == [complete |-> FALSE, data |-> t]

\* json.load + Task.from_dict succeed on this file content
Loadable(c) ==
    /\ c.complete
    /\ c.data.status \in StatusSet
    /\ c.data.priority \in TaskPriority

FileExists(dk, dir, id) == id \in DOMAIN dk[dir]

Unlink(dk, dir, id) == [dk EXCEPT ![dir] = Remove(dk[dir], id)]

WriteFile(dk, dir, id, content) == [dk EXCEPT ![dir] = Put(dk[dir], id, content)]

\* one iteration of the loop of _save_task, "for status in TaskStatus"
RemoveOldStep(dk, id, status, i) ==
    LET s == TaskStatus[i]
        d == GetTaskDir(s)
    IN IF s # status /\ FileExists(dk, d, id) THEN Unlink(dk, d, id) ELSE dk

\* the whole loop of _save_task, from iteration i on
RECURSIVE RemoveOld(_, _, _, _)
RemoveOld(dk, id, status, i) ==
    IF i > Len(TaskStatus) THEN dk
    ELSE RemoveOld(RemoveOldStep(dk, id, status, i), id, status, i + 1)

\* a _save_task that forgets to remove the file of the previous status
SaveTaskKeepOld(dk, t) ==
    WriteFile(dk, GetTaskDir(t.status), t.id, ToJson(t))

\* TaskManager._save_task, run to completion
SaveTask(dk, t) ==
    WriteFile(RemoveOld(dk, t.id, t.status, 1), GetTaskDir(t.status), t.id, ToJson(t))

\* TaskManager._load_all_tasks: later directories overwrite earlier ones,
\* a file that does not load is skipped
RECURSIVE LoadDirs(_, _, _)
LoadDirs(dk, mem, i) ==
    IF i > Len(DirOrder) THEN mem
    ELSE LET d == DirOrder[i]
             good == {f \in DOMAIN dk[d] : Loadable(dk[d][f])}
             byId == {dk[d][f].data.id : f \in good}
             pick(k) == (CHOOSE f \in good : dk[d][f].data.id = k)
             mem2 == [k \in (DOMAIN mem) \cup byId |->
                        IF k \in byId THEN dk[d][pick(k)].data ELSE mem[k]]
         IN LoadDirs(dk, mem2, i + 1)

\* a scan that looks into the pending directory only
LoadPendingOnly(dk) ==
    [k \in {f \in DOMAIN dk["pending"] : Loadable(dk["pending"][f])} |->
        dk["pending"][k].data]

LoadAllTasks(dk) == LoadDirs(dk, EmptyMap, 1)

TaskStart ==
    /\ tasks = EmptyMap
    /\ disk = [d \in Dirs |-> EmptyMap]
    /\ nextId = 1
    /\ now = 1
    /\ op = "init"
    /\ ret = TRUE
    /\ pc = [at |-> "idle", id |-> 0, i |-> 0]
    /\ committed = {}

\* time.time() moves on between calls
Tick ==
    /\ now < MaxTime
    /\ now' = now + 1
    /\ UNCHANGED <<tasks, disk, nextId, op, ret, pc, committed>>
    /\ UNCHANGED notTask

\* TaskManager.create_task
CreateTask(prio) ==
    /\ op' = "create"
    /\ nextId <= MaxTasks
    /\ LET t == NewTask(nextId, prio, now)
       IN /\ tasks' = Put(tasks, nextId, t)
          /\ disk' = SaveTask(disk, t)
          /\ ret' = TRUE
          /\ committed' = committed \cup {nextId}
    /\ nextId' = nextId + 1
    /\ UNCHANGED <<now, pc>>
    /\ UNCHANGED notTask

\* an assign_task that skips the pending-only guard
AssignTaskNoGuard(id, agent) ==
    /\ op' = "assign"
    /\ IF id \notin DOMAIN tasks
       THEN /\ ret' = FALSE
            /\ UNCHANGED <<tasks, disk>>
       ELSE LET t == [tasks[id] EXCEPT !.assigned_to = agent,
                                       !.status = "in_progress",
                                       !.started_at = now]
            IN /\ tasks' = Put(tasks, id, t)
               /\ disk' = SaveTask(disk, t)
               /\ ret' = TRUE
    /\ UNCHANGED <<nextId, now, pc, committed>>
    /\ UNCHANGED notTask

\* TaskManager.assign_task
AssignTask(id, agent) ==
    /\ op' = "assign"
    /\ IF id \notin DOMAIN tasks
       THEN /\ ret' = FALSE
            /\ UNCHANGED <<tasks, disk>>
       ELSE IF tasks[id].status # "pending"
       THEN /\ ret' = FALSE
            /\ UNCHANGED <<tasks, disk>>
       ELSE LET t == [tasks[id] EXCEPT !.assigned_to = agent,
                                       !.status = "in_progress",
                                       !.started_at = now]
            IN /\ tasks' = Put(tasks, id, t)
               /\ disk' = SaveTask(disk, t)
               /\ ret' = TRUE
    /\ UNCHANGED <<nextId, now, pc, committed>>
    /\ UNCHANGED notTask

\* an update_task_status that stamps completed_at whatever the status
UpdatedAlwaysStamped(t, status, result, error) ==
    [t EXCEPT !.status = status,
              !.completed_at = now,
              !.result = IF result # NoText THEN result ELSE @,
              !.error = IF error # NoText THEN error ELSE @]

\* the task as update_task_status leaves it in memory
Updated(t, status, result, error) ==
    [t EXCEPT !.status = status,
              !.completed_at = IF status \in TerminalStatuses THEN now ELSE @,
              !.result = IF result # NoText THEN result ELSE @,
              !.error = IF error # NoText THEN error ELSE @]

\* an update_task_status that refuses to take a task out of a terminal
\* status
UpdateTaskStatusGuarded(id, status, result, error) ==
    /\ op' = "update"
    /\ IF id \notin DOMAIN tasks \/ tasks[id].status \in TerminalStatuses
       THEN /\ ret' = FALSE
            /\ UNCHANGED <<tasks, disk>>
       ELSE LET t == Updated(tasks[id], status, result, error)
            IN /\ tasks' = Put(tasks, id, t)
               /\ disk' = SaveTask(disk, t)
               /\ ret' = TRUE
    /\ UNCHANGED <<nextId, now, pc, committed>>
    /\ UNCHANGED notTask

\* TaskManager.update_task_status (cancel_task is update to "cancelled")
UpdateTaskStatus(id, status, result, error) ==
    /\ op' = "update"
    /\ IF id \notin DOMAIN tasks
       THEN /\ ret' = FALSE
            /\ UNCHANGED <<tasks, disk>>
       ELSE LET t == Updated(tasks[id], status, result, error)
            IN /\ tasks' = Put(tasks, id, t)
               /\ disk' = SaveTask(disk, t)
               /\ ret' = TRUE
    /\ UNCHANGED <<nextId, now, pc, committed>>
    /\ UNCHANGED notTask

\* TaskManager.delete_task
DeleteTask(id) ==
    /\ op' = "delete"
    /\ IF id \notin DOMAIN tasks
       THEN /\ ret' = FALSE
            /\ UNCHANGED <<tasks, disk, committed>>
       ELSE LET d == GetTaskDir(tasks[id].status)
            IN /\ tasks' = Remove(tasks, id)
               /\ disk' = IF FileExists(disk, d, id) THEN Unlink(disk, d, id) ELSE disk
               /\ ret' = TRUE
               /\ committed' = committed \ {id}
    /\ UNCHANGED <<nextId, now, pc>>
    /\ UNCHANGED notTask

\* TaskManager.__init__ of a later instance on the same work directory
NewTaskManager ==
    /\ op' = "new"
    /\ tasks' = LoadAllTasks(disk)
    /\ ret' = TRUE
    /\ UNCHANGED <<disk, nextId, now, pc, committed>>
    /\ UNCHANGED notTask

\* the (result, error) arguments SpecTask passes to update_task_status
\* (both optional arguments left at their default, None)
Outcomes == {<<NoText, NoText>>}

\* the priorities SpecTask creates tasks with (create_task's default)
CreatePriorities == {"medium"}

TaskNext ==
    \/ Tick
    \/ \E p \in CreatePriorities : CreateTask(p)
    \/ \E id \in TaskIds, a \in Workers : AssignTask(id, a)
    \/ \E id \in TaskIds, s \in StatusSet, o \in Outcomes :
          UpdateTaskStatus(id, s, o[1], o[2])
    \/ \E id \in TaskIds : DeleteTask(id)

\* the (status, result) arguments SpecRebuild passes to update_task_status
ResultInputs ==
    {<<s, NoText>> : s \in StatusSet} \cup {<<"completed", "done">>}

\* the agents SpecRebuild assigns tasks to
RebuildWorkers == {"worker-1"}

\* one Task Store at a time on the work directory: its calls, and a later
\* instance taking its place
RebuildNext ==
    \/ Tick
    \/ \E p \in CreatePriorities : CreateTask(p)
    \/ \E id \in TaskIds, a \in RebuildWorkers : AssignTask(id, a)
    \/ \E id \in TaskIds, r \in ResultInputs : UpdateTaskStatus(id, r[1], r[2], NoText)
    \/ \E id \in TaskIds : DeleteTask(id)
    \/ NewTaskManager



(***************************************************************************)
(* Mailbox Protocol: src/src/hephaestus/communication.py, class Message.   *)
(* A text is a sequence of tokens [k, v]: k = "c" is one character v; the  *)
(* fixed pieces of the format ("# Task Message", the metadata block,       *)
(* "## Content", "checksum: ", the quoted digest) are one token each.      *)
(* A body is a sequence of characters.                                     *)
(***************************************************************************)
Chars == {"a", " ", "-"}

Whitespace == {" ", "\n"}

RECURSIVE SeqsUpTo(_, _)
SeqsUpTo(S, n) ==
    IF n = 0 THEN {<<>>}
    ELSE LET shorter == SeqsUpTo(S, n - 1)
         IN shorter \cup {Append(b, c) : b \in {x \in shorter : Len(x) = n - 1}, c \in S}

Bodies == SeqsUpTo(Chars, MaxBody)

Ch(c) == [k |-> "c", v |-> c]

Tok(name) == [k |-> name, v |-> ""]

NL == Ch("\n")

IsDash(t) == t.k = "c" /\ t.v = "-"

IsSpace(t) == t.k = "c" /\ t.v \in Whitespace

\* the word "checksum:" written inside a body, as one character of it
Label == "k"

\* the characters of a body as tokens, and back
AsTokens(b) == [i \in 1..Len(b) |-> IF b[i] = Label THEN Tok("cklabel") ELSE Ch(b[i])]

AsChars(ts) == [i \in 1..Len(ts) |-> IF ts[i].k = "cklabel" THEN Label ELSE ts[i].v]

\* str.strip() on a text
RECURSIVE LStrip(_)
LStrip(ts) == IF Len(ts) > 0 /\ IsSpace(Head(ts)) THEN LStrip(Tail(ts)) ELSE ts

RECURSIVE RStrip(_)
RStrip(ts) ==
    IF Len(ts) > 0 /\ IsSpace(ts[Len(ts)]) THEN RStrip(SubSeq(ts, 1, Len(ts) - 1)) ELSE ts

Strip(ts) == RStrip(LStrip(ts))

\* str.strip() on a body
StripBody(b) == AsChars(Strip(AsTokens(b)))

\* the empty checksum string ""
NoChecksum == <<>>

\* a checksum text that is not the digest of any message
OtherText == <<"text">>

\* a digest that ignores the body
ChecksumNoBody(m) == <<m.id, m.type, m.sender, m.recipient>>

\* Message._calculate_checksum: md5 of id + type + sender + recipient +
\* content.strip(); the digest is modelled by the tuple it is computed from
\* (no collisions)
Checksum(m) == <<m.id, m.type, m.sender, m.recipient, StripBody(m.content)>>

\* Message.verify_checksum
VerifyChecksum(m) == m.checksum = Checksum(m)

\* Message(...) with __post_init__: an empty checksum is computed
Message(id, type, sender, recipient, content, checksum) ==
    LET m == [id |-> id, type |-> type, sender |-> sender, recipient |-> recipient,
              timestamp |-> "t", priority |-> "medium", content |-> content,
              checksum |-> checksum]
    IN IF checksum = NoChecksum THEN [m EXCEPT !.checksum = Checksum(m)] ELSE m

Metadata(m) ==
    [id |-> m.id, type |-> m.type, from |-> m.sender, to |-> m.recipient,
     timestamp |-> m.timestamp, priority |-> m.priority]

Delimiter == <<Ch("-"), Ch("-"), Ch("-")>>

\* Message.to_markdown
ToMarkdown(m) ==
    <<Tok("title"), NL>> \o Delimiter \o <<NL, [k |-> "meta", v |-> Metadata(m)]>>
    \o Delimiter \o <<NL, NL, Tok("head"), NL, NL>>
    \o AsTokens(m.content) \o <<NL, NL>>
    \o Delimiter \o <<NL, Tok("cklabel"), [k |-> "digest", v |-> m.checksum], NL>>

\* str.split("---"): left to right, occurrences do not overlap
RECURSIVE SplitFrom(_, _, _)
SplitFrom(ts, i, cur) ==
    IF i > Len(ts) THEN <<cur>>
    ELSE IF i + 2 <= Len(ts) /\ IsDash(ts[i]) /\ IsDash(ts[i + 1]) /\ IsDash(ts[i + 2])
         THEN <<cur>> \o SplitFrom(ts, i + 3, <<>>)
         ELSE SplitFrom(ts, i + 1, Append(cur, ts[i]))

Split(ts) == SplitFrom(ts, 1, <<>>)

\* the index of the first token of kind k in a text, 0 when there is none
FirstOf(ts, k) ==
    IF \E i \in 1..Len(ts) : ts[i].k = k
    THEN CHOOSE i \in 1..Len(ts) : ts[i].k = k /\ \A j \in 1..(i - 1) : ts[j].k # k
    ELSE 0

After(ts, i) == SubSeq(ts, i + 1, Len(ts))

DecodeError == [ok |-> FALSE, msg |-> Message(0, "none", "none", "none", <<>>, NoChecksum)]

\* Message.from_markdown
FromMarkdown(text) ==
    LET parts == Split(text)
    IN IF Len(parts) < 3 THEN DecodeError
       ELSE LET metadata_section == Strip(parts[2])
            IN IF ~(Len(metadata_section) > 0 /\ metadata_section[1].k = "meta")
               THEN DecodeError
               ELSE LET meta == metadata_section[1].v
                        content_section == Strip(parts[3])
                        h == FirstOf(content_section, "head")
                        content == IF h # 0 THEN AsChars(Strip(After(content_section, h)))
                                   ELSE <<>>
                        checksum_section == IF Len(parts) > 3 THEN Strip(parts[4]) ELSE <<>>
                        c == FirstOf(checksum_section, "cklabel")
                        rest == IF c # 0 THEN Strip(After(checksum_section, c)) ELSE <<>>
                        checksum == IF rest = <<>> THEN NoChecksum
                                    ELSE IF Len(rest) = 1 /\ rest[1].k = "digest"
                                         THEN rest[1].v
                                         ELSE OtherText
                    IN [ok |-> TRUE,
                        msg |-> Message(meta.id, meta.type, meta.from, meta.to,
                                        content, checksum)]

(***************************************************************************)
(* A caller that constructs a Message, changes its body, and sends it      *)
(* through to_markdown / from_markdown.                                    *)
(***************************************************************************)
\* no from_markdown call was made yet
NotDecoded == [ok |-> FALSE, msg |-> Message(-1, "none", "none", "none", <<>>, NoChecksum)]

\* the messages the caller constructs: (type, sender, recipient)
MsgInputs == {<<"task", "master", "worker-1">>, <<"status", "worker-1", "master">>}

\* the state of the Message variables in the other specifications
MsgIdle ==
    /\ msg = Message(1, "task", "master", "worker-1", <<>>, NoChecksum)
    /\ orig = <<>>
    /\ dec = NotDecoded

\* Message(id=..., type=..., sender=..., recipient=..., content=...)
MsgStart ==
    /\ \E i \in MsgInputs, b \in Bodies :
          /\ msg = Message(1, i[1], i[2], i[3], b, NoChecksum)
          /\ orig = b
    /\ dec = NotDecoded

\* message.content = body (the checksum field is not touched)
SetContent(body) ==
    /\ body # msg.content
    /\ msg' = [msg EXCEPT !.content = body]
    /\ dec' = NotDecoded
    /\ UNCHANGED orig
    /\ UNCHANGED notMsg

\* Message.from_markdown(message.to_markdown())
RoundTrip ==
    /\ dec' = FromMarkdown(ToMarkdown(msg))
    /\ UNCHANGED <<msg, orig>>
    /\ UNCHANGED notMsg

\* the bodies one assignment changes a body to: one character more, one
\* character less, or the original body again
Edits(b) ==
    {Append(b, c) : c \in IF Len(b) < MaxBody THEN Chars ELSE {}}
    \cup (IF Len(b) > 0 THEN {SubSeq(b, 1, Len(b) - 1)} ELSE {})
    \cup {orig}

MsgNext ==
    \/ \E b \in Edits(msg.content) : SetContent(b)
    \/ RoundTrip


(***************************************************************************)
(* Two Task Stores on one work directory: the TaskManager of a second CLI  *)
(* invocation loads the files when it is constructed and works on its own  *)
(* _tasks from then on.                                                    *)
(***************************************************************************)
notTaskOther == <<msgVars, mailVars, distVars, sessVars, regVars, healthVars, paneVars,
                  queueVars, cliVars, monVars, loopVars, delVars, reapVars, wrapVars>>

\* no second instance was constructed
OtherIdle == tasksOther = EmptyMap

\* TaskManager(work_dir) of the second invocation: _load_all_tasks
OpenOther ==
    /\ op' = "new"
    /\ tasksOther' = LoadAllTasks(disk)
    /\ ret' = TRUE
    /\ UNCHANGED <<tasks, disk, nextId, now, pc, committed>>
    /\ UNCHANGED notTaskOther

\* assign_task called on the second instance
AssignTaskOther(id, agent) ==
    /\ op' = "assign_other"
    /\ IF id \notin DOMAIN tasksOther
       THEN /\ ret' = FALSE
            /\ UNCHANGED <<tasksOther, disk>>
       ELSE IF tasksOther[id].status # "pending"
       THEN /\ ret' = FALSE
            /\ UNCHANGED <<tasksOther, disk>>
       ELSE LET t == [tasksOther[id] EXCEPT !.assigned_to = agent,
                                            !.status = "in_progress",
                                            !.started_at = now]
            IN /\ tasksOther' = Put(tasksOther, id, t)
               /\ disk' = SaveTask(disk, t)
               /\ ret' = TRUE
    /\ UNCHANGED <<tasks, nextId, now, pc, committed>>
    /\ UNCHANGED notTaskOther

TwoNext ==
    \/ Tick
    \/ \E p \in CreatePriorities : CreateTask(p)
    \/ \E id \in TaskIds, a \in Workers : AssignTask(id, a)
    \/ OpenOther
    \/ \E id \in TaskIds, a \in Workers : AssignTaskOther(id, a)

\* the first instance has assigned the task: its assign_task returned True
AssignedByFirst(id) ==
    /\ id \in DOMAIN tasks
    /\ tasks[id].status = "in_progress"
    /\ tasks[id].assigned_to \in Workers
    /\ id \in DOMAIN disk["in_progress"]

\* C37: with two Task Store instances open on the same work directory a
\* pending task is assigned at most once: after assign of a task succeeded
\* in one instance, a later assign of the same task by the other instance
\* fails and the task keeps its first assignee.
C37_AssignedOnce ==
    [][\A id \in TaskIds, a \in Workers :
          (AssignTaskOther(id, a) /\ AssignedByFirst(id)) =>
             /\ ret' = FALSE
             /\ disk' = disk]_vars


(***************************************************************************)
(* The Mailbox Store: CommunicationManager over the communication/         *)
(* directory.  A path is <<direction, agent directory, id, type>>, the     *)
(* file communication/<direction>/<agent>/<id>_<type>.md.                  *)
(***************************************************************************)
Agents == {"master"} \cup Workers

MsgIds == {1, 2}

MsgTypes == {"task", "status"}

\* receive_messages(agent_id) without a message_type
AnyType == "any"

\* the order of sorted() on the names used
AgentRank == [a \in Agents |-> CASE a = "master" -> 0 [] a = "worker-1" -> 1 [] OTHER -> 2]

TypeRank == [t \in MsgTypes |-> IF t = "status" THEN 0 ELSE 1]

Paths == {"master_to_worker", "worker_to_master"} \X Agents \X MsgIds \X MsgTypes

\* send_message: the file a message is written to
TargetPath(m) ==
    IF m.sender = "master"
    THEN <<"master_to_worker", m.recipient, m.id, m.type>>
    ELSE <<"worker_to_master", m.sender, m.id, m.type>>

\* the ids as they are written in file names: the second id begins with
\* the first and an underscore (such as 'build' and 'build_docs')
IdText == [i \in MsgIds |-> IF i = 1 THEN <<"m">> ELSE <<"m", "_", "z">>]

\* send_message: filename = f"{message.id}_{message.type}.md"
FileName(p) == IdText[p[3]] \o <<"_", p[4], ".md">>

\* the file p matches the pattern f"{message_id}_*.md" of delete_message
GlobMatches(message_id, p) ==
    LET name == FileName(p)
        head == IdText[message_id] \o <<"_">>
    IN /\ Len(name) >= Len(head) + 1
       /\ SubSeq(name, 1, Len(head)) = head
       /\ name[Len(name)] = ".md"

\* receive_messages: the files its glob / rglob yields
Inbox(box, agent, kind) ==
    {p \in DOMAIN box :
        /\ IF agent = "master" THEN p[1] = "worker_to_master"
           ELSE p[1] = "master_to_worker" /\ p[2] = agent
        /\ kind = AnyType \/ p[4] = kind}

\* sorted(filepaths): by directory, then by file name
PathLess(p, q) ==
    \/ AgentRank[p[2]] < AgentRank[q[2]]
    \/ p[2] = q[2] /\ p[3] < q[3]
    \/ p[2] = q[2] /\ p[3] = q[3] /\ TypeRank[p[4]] < TypeRank[q[4]]

RECURSIVE Sorted(_)
Sorted(S) ==
    IF S = {} THEN <<>>
    ELSE LET first == CHOOSE p \in S : \A q \in S \ {p} : PathLess(p, q)
         IN <<first>> \o Sorted(S \ {first})

\* receive_messages: the loop over the files; a file that does not parse
\* or whose checksum does not verify is skipped
RECURSIVE ReadAll(_, _)
ReadAll(box, paths) ==
    IF paths = <<>> THEN <<>>
    ELSE LET d == FromMarkdown(box[Head(paths)])
         IN (IF d.ok /\ VerifyChecksum(d.msg) THEN <<d.msg>> ELSE <<>>)
            \o ReadAll(box, Tail(paths))

ReceiveMessages(box, agent, kind) == ReadAll(box, Sorted(Inbox(box, agent, kind)))

NoWriter == [at |-> "idle"]

NoArg == [agent |-> "none", kind |-> AnyType]

\* CommunicationManager.__init__: the two directories, empty
MailStart ==
    /\ mbox = EmptyMap
    /\ sentAt = EmptyMap
    /\ nSent = 0
    /\ mailOp = "init"
    /\ mailArg = NoArg
    /\ mailRet = <<>>
    /\ mailOk = TRUE
    /\ wr = NoWriter

\* send_message(Message(id, type, sender, recipient, content=body))
SendMessage(id, type, sender, recipient, body) ==
    /\ nSent < MaxSends
    /\ wr = NoWriter
    /\ LET m == Message(id, type, sender, recipient, body, NoChecksum)
       IN /\ mbox' = Put(mbox, TargetPath(m), ToMarkdown(m))
          /\ sentAt' = Put(sentAt, TargetPath(m), m)
    /\ nSent' = nSent + 1
    /\ mailOp' = "send"
    /\ mailArg' = NoArg
    /\ mailRet' = <<>>
    /\ mailOk' = TRUE
    /\ UNCHANGED wr
    /\ UNCHANGED notMail

\* receive_messages(agent_id, message_type)
Receive(agent, kind) ==
    /\ mailRet' = ReceiveMessages(mbox, agent, kind)
    /\ mailOp' = "receive"
    /\ mailArg' = [agent |-> agent, kind |-> kind]
    /\ mailOk' = TRUE
    /\ UNCHANGED <<mbox, sentAt, nSent, wr>>
    /\ UNCHANGED notMail

\* delete_message(agent_id, message_id): the first file rglob yields for
\* <message_id>_*.md is unlinked
DeleteMessage(agent, id) ==
    /\ wr = NoWriter
    /\ LET found == {p \in Inbox(mbox, agent, AnyType) : GlobMatches(id, p)}
       IN IF found = {}
          THEN /\ mailOk' = FALSE
               /\ UNCHANGED <<mbox, sentAt>>
          ELSE /\ \E p \in found :
                    /\ mbox' = Remove(mbox, p)
                    /\ sentAt' = Remove(sentAt, p)
               /\ mailOk' = TRUE
    /\ mailOp' = "delete"
    /\ mailArg' = [agent |-> agent, kind |-> AnyType]
    /\ mailRet' = <<>>
    /\ UNCHANGED <<nSent, wr>>
    /\ UNCHANGED notMail

\* a mailbox file is as send_message wrote it
Intact(p) == p \in DOMAIN sentAt /\ p \in DOMAIN mbox /\ mbox[p] = ToMarkdown(sentAt[p])

\* somebody edits the body in a mailbox file and leaves the rest of the
\* file, the checksum line included, as it was
EditBody(p, body) ==
    /\ wr = NoWriter
    /\ Intact(p)
    /\ StripBody(body) # StripBody(sentAt[p].content)
    /\ mbox' = Put(mbox, p, ToMarkdown([sentAt[p] EXCEPT !.content = body]))
    /\ mailOp' = "edit"
    /\ mailArg' = NoArg
    /\ mailRet' = <<>>
    /\ mailOk' = TRUE
    /\ UNCHANGED <<sentAt, nSent, wr>>
    /\ UNCHANGED notMail

\* the messages the agents send: (type, sender, recipient)
MailInputs ==
    {<<"task", "master", "worker-1">>, <<"task", "master", "worker-2">>,
     <<"status", "worker-1", "master">>, <<"status", "worker-2", "master">>}

\* the bodies they send, and the bodies a file is edited to
MailBodies == {<<"a">>, <<"a", "-", "-", "-", Label, "a">>}

EditedBodies == {<<"b">>, <<"b", "-", "-", "-", "b">>}

MailNext ==
    \/ \E id \in MsgIds, i \in MailInputs, b \in MailBodies :
          SendMessage(id, i[1], i[2], i[3], b)
    \/ \E a \in Agents, k \in {AnyType, "task"} : Receive(a, k)
    \/ \E a \in Agents, id \in MsgIds : DeleteMessage(a, id)
    \/ \E p \in Paths, b \in EditedBodies : EditBody(p, b)


(***************************************************************************)
(* send_message taken one file operation at a time: open(filepath, "w")    *)
(* creates or truncates the file, the buffered writer then puts the text   *)
(* into the file in one or more write() calls, the last of them at         *)
(* close().  A receive_messages of another process can run in between.     *)
(***************************************************************************)
\* what a reader can find in the file while text is being written: a
\* prefix of it, possibly ending inside the checksum digest
Prefixes(text) ==
    {SubSeq(text, 1, n) : n \in 0..Len(text)}
    \cup {Append(SubSeq(text, 1, n - 1), [k |-> "digest", v |-> OtherText]) :
             n \in {i \in 1..Len(text) : text[i].k = "digest"}}

\* send_message up to open(filepath, "w")
SendOpen(id, type, sender, recipient, body) ==
    /\ nSent < MaxSends
    /\ wr = NoWriter
    /\ LET m == Message(id, type, sender, recipient, body, NoChecksum)
       IN /\ mbox' = Put(mbox, TargetPath(m), <<>>)
          /\ sentAt' = Remove(sentAt, TargetPath(m))
          /\ wr' = [at |-> "writing", path |-> TargetPath(m), m |-> m]
    /\ nSent' = nSent + 1
    /\ mailOp' = "open"
    /\ mailArg' = NoArg
    /\ mailRet' = <<>>
    /\ UNCHANGED mailOk
    /\ UNCHANGED notMail

\* one write() of the buffered writer: more of the text is in the file
SendFlush ==
    /\ wr # NoWriter
    /\ \E t \in Prefixes(ToMarkdown(wr.m)) :
          /\ t # ToMarkdown(wr.m)
          /\ \/ Len(t) > Len(mbox[wr.path])
             \/ /\ Len(t) = Len(mbox[wr.path])
                /\ t # mbox[wr.path]
                /\ t = SubSeq(ToMarkdown(wr.m), 1, Len(t))
          /\ mbox' = Put(mbox, wr.path, t)
    /\ mailOp' = "write"
    /\ mailArg' = NoArg
    /\ mailRet' = <<>>
    /\ UNCHANGED <<sentAt, nSent, mailOk, wr>>
    /\ UNCHANGED notMail

\* close(): the rest of the text is in the file; send_message returns True
SendClose ==
    /\ wr # NoWriter
    /\ mbox' = Put(mbox, wr.path, ToMarkdown(wr.m))
    /\ sentAt' = Put(sentAt, wr.path, wr.m)
    /\ wr' = NoWriter
    /\ mailOp' = "send"
    /\ mailArg' = NoArg
    /\ mailRet' = <<>>
    /\ mailOk' = TRUE
    /\ UNCHANGED nSent
    /\ UNCHANGED notMail

\* the bodies sent while a reader is polling: none contains a delimiter
RaceBodies == {<<"a", "b">>, <<"b", " ", "a">>}

RaceInputs == {<<"task", "master", "worker-1">>, <<"status", "worker-1", "master">>}

RaceNext ==
    \/ \E id \in MsgIds, i \in RaceInputs, b \in RaceBodies :
          SendOpen(id, i[1], i[2], i[3], b)
    \/ SendFlush
    \/ SendClose
    \/ \E a \in {"master", "worker-1"} : Receive(a, AnyType)

(***************************************************************************)
(* delete_message taken one file operation at a time, called by several    *)
(* consumers of one mailbox: rglob yields a path, then filepath.unlink()   *)
(* removes the file.  Another consumer's call can run in between.          *)
(***************************************************************************)
notMailDel == <<taskVars, msgVars, distVars, sessVars, regVars, healthVars, paneVars,
                queueVars, cliVars, monVars, loopVars,
            reapVars,
            wrapVars,
            otherVars>>

Consumers == {"consumer-1", "consumer-2"}

\* the agent whose mailbox a message goes to
MailboxOf(m) == IF m.sender = "master" THEN m.recipient ELSE "master"

NoDelete == [at |-> "idle", outcome |-> "none"]

\* no delete_message was called
DelIdle ==
    /\ deleters = [c \in Consumers |-> NoDelete]
    /\ trueReturns = [k \in Agents \X MsgIds |-> 0]
    /\ sends = [k \in Agents \X MsgIds |-> 0]

\* send_message, counted by mailbox and id
SendCounted(id, type, sender, recipient, body) ==
    /\ nSent < MaxSends
    /\ LET m == Message(id, type, sender, recipient, body, NoChecksum)
       IN /\ mbox' = Put(mbox, TargetPath(m), ToMarkdown(m))
          /\ sentAt' = Put(sentAt, TargetPath(m), m)
          /\ sends' = [sends EXCEPT ![<<MailboxOf(m), id>>] = @ + 1]
    /\ nSent' = nSent + 1
    /\ mailOp' = "send"
    /\ mailArg' = NoArg
    /\ mailRet' = <<>>
    /\ mailOk' = TRUE
    /\ UNCHANGED <<wr, deleters, trueReturns>>
    /\ UNCHANGED notMailDel

\* delete_message(agent_id, message_id) up to the first path rglob yields;
\* without a match the call returns False
DeleteFind(c, agent, id) ==
    /\ deleters[c].at = "idle"
    /\ LET found == {p \in Inbox(mbox, agent, AnyType) : GlobMatches(id, p)}
       IN IF found = {}
          THEN deleters' = [deleters EXCEPT ![c] = [at |-> "idle", outcome |-> "false"]]
          ELSE \E p \in found :
                  deleters' = [deleters EXCEPT
                                  ![c] = [at |-> "unlink", outcome |-> "none",
                                          agent |-> agent, id |-> id, path |-> p]]
    /\ mailOp' = "find"
    /\ UNCHANGED <<mbox, sentAt, nSent, mailArg, mailRet, mailOk, wr>>
    /\ UNCHANGED <<trueReturns, sends>>
    /\ UNCHANGED notMailDel

\* filepath.unlink() and return True; when the file is gone unlink raises
\* FileNotFoundError, the handler logs it and the call returns False
DeleteUnlink(c) ==
    /\ deleters[c].at = "unlink"
    /\ IF deleters[c].path \in DOMAIN mbox
       THEN /\ mbox' = Remove(mbox, deleters[c].path)
            /\ sentAt' = Remove(sentAt, deleters[c].path)
            /\ deleters' = [deleters EXCEPT ![c] = [at |-> "idle", outcome |-> "true"]]
            /\ trueReturns' = [trueReturns EXCEPT
                                  ![<<deleters[c].agent, deleters[c].id>>] = @ + 1]
       ELSE /\ deleters' = [deleters EXCEPT ![c] = [at |-> "idle", outcome |-> "false"]]
            /\ UNCHANGED <<mbox, sentAt, trueReturns>>
    /\ mailOp' = "delete"
    /\ UNCHANGED <<nSent, mailArg, mailRet, mailOk, wr>>
    /\ UNCHANGED sends
    /\ UNCHANGED notMailDel

\* the body the messages of SpecDelete carry
DeleteBodies == {<<"a">>}

DeleteNext ==
    \/ \E id \in MsgIds, i \in MailInputs, b \in DeleteBodies :
          SendCounted(id, i[1], i[2], i[3], b)
    \/ \E c \in Consumers, a \in Agents, id \in MsgIds : DeleteFind(c, a, id)
    \/ \E c \in Consumers : DeleteUnlink(c)


(***************************************************************************)
(* Claims about the Mailbox Store.                                         *)
(***************************************************************************)
\* the last receive_messages returned the message of the file p
Returned(p) ==
    \E i \in 1..Len(mailRet) :
        /\ mailRet[i].id = p[3]
        /\ mailRet[i].type = p[4]
        /\ IF p[1] = "master_to_worker" THEN mailRet[i].recipient = p[2]
           ELSE mailRet[i].sender = p[2]

\* the last receive_messages looked at the file p
Looked(p) == p \in Inbox(mbox, mailArg.agent, mailArg.kind)

\* a message that receive_messages returns when nobody touched its file
Deliverable(m) ==
    LET d == FromMarkdown(ToMarkdown(m)) IN d.ok /\ VerifyChecksum(d.msg)

\* C6: receive() on an inbox with a corrupted file (body altered, checksum
\* left stale) does not return that file's message, and returns every
\* intact message of the inbox that it returns from an uncorrupted inbox.
C6_CorruptedExcluded ==
    mailOp = "receive" =>
        \A p \in DOMAIN sentAt :
            Looked(p) =>
                /\ ~Intact(p) => ~Returned(p)
                /\ (Intact(p) /\ Deliverable(sentAt[p])) => Returned(p)

\* the message m is in the list the last receive_messages returned
ReturnedMsg(m) ==
    \E i \in 1..Len(mailRet) :
        /\ mailRet[i].id = m.id
        /\ mailRet[i].type = m.type
        /\ mailRet[i].sender = m.sender
        /\ mailRet[i].recipient = m.recipient

\* C8: a message sent by master to worker W, while its file is in the
\* mailbox as sent, is returned by receive(W) and by the receive of no
\* other agent; a message sent by worker W to master is returned by
\* receive("master") and by the receive of no worker.
C8_Routing ==
    (mailOp = "receive" /\ mailArg.kind = AnyType) =>
        \A p \in DOMAIN sentAt :
            Intact(p) =>
                LET m == sentAt[p]
                IN ReturnedMsg(m) <=>
                      (mailArg.agent = IF m.sender = "master" THEN m.recipient ELSE "master")

\* the routing alone: what receive(agent) returns was sent to that agent
C8_NoMisdelivery ==
    mailOp = "receive" =>
        \A i \in 1..Len(mailRet) :
            mailArg.agent = IF mailRet[i].sender = "master" THEN mailRet[i].recipient
                            ELSE "master"

\* the message a returned message was sent as
AsSent(r, m) ==
    /\ r.id = m.id
    /\ r.type = m.type
    /\ r.sender = m.sender
    /\ r.recipient = m.recipient
    /\ r.content = StripBody(m.content)
    /\ r.checksum = m.checksum

\* C7: while send() is writing a file, a concurrent receive() returns for
\* that file either the complete message exactly as sent or nothing.
C7_NoPartialRead ==
    (mailOp = "receive" /\ wr # NoWriter /\ Looked(wr.path)) =>
        (Returned(wr.path) =>
            \E i \in 1..Len(mailRet) : AsSent(mailRet[i], wr.m))

\* the checksum a file records: the text after "checksum:" in the part
\* after the third delimiter, NoChecksum when there is none
RecordedChecksum(text) ==
    LET parts == Split(text)
        checksum_section == IF Len(parts) > 3 THEN Strip(parts[4]) ELSE <<>>
        c == FirstOf(checksum_section, "cklabel")
        rest == IF c # 0 THEN Strip(After(checksum_section, c)) ELSE <<>>
    IN IF rest = <<>> THEN NoChecksum
       ELSE IF Len(rest) = 1 /\ rest[1].k = "digest" THEN rest[1].v
       ELSE OtherText

\* the files of agent's mailbox that hold a message with this id
FilesWithId(box, agent, id) == {p \in Inbox(box, agent, AnyType) : p[3] = id}

\* C33: delete(agent, message_id) removes exactly one file, the file of the
\* message whose id is message_id in that agent's mailbox, and returns true;
\* it returns false and removes nothing when no such message exists; a
\* message with a different id is never removed, and after a true result
\* receive(agent) no longer returns a message with that id.
C33_DeleteExactlyThatMessage ==
    [][\A a \in Agents, id \in MsgIds :
          DeleteMessage(a, id) =>
             IF FilesWithId(mbox, a, id) = {}
             THEN mailOk' = FALSE /\ mbox' = mbox
             ELSE /\ mailOk' = TRUE
                  /\ \E p \in FilesWithId(mbox, a, id) : mbox' = Remove(mbox, p)
                  /\ \A i \in 1..Len(ReceiveMessages(mbox', a, AnyType)) :
                         ReceiveMessages(mbox', a, AnyType)[i].id # id]_vars

\* the file name of message a is not behind that of message b in
\* lexicographic order: m_status.md, m_task.md, m_z_status.md, m_z_task.md
NameNotBehind(a, b) ==
    \/ a.id < b.id
    \/ a.id = b.id /\ TypeRank[a.type] <= TypeRank[b.type]

\* the verified messages in agent's mailbox, of one kind or of any
VerifiedOfKind(box, agent, kind) ==
    {FromMarkdown(box[p]).msg :
        p \in {q \in Inbox(box, agent, AnyType) :
                  /\ FromMarkdown(box[q]).ok
                  /\ VerifyChecksum(FromMarkdown(box[q]).msg)
                  /\ kind = AnyType \/ FromMarkdown(box[q]).msg.type = kind}}

\* C34: receive(agent, kind?) returns the verified messages in
\* lexicographic order of their file names (<id>_<kind>.md), for a worker's
\* inbox and for master's view over the outboxes of all workers, and with
\* a kind filter returns exactly the verified messages of that kind.
C34_ReceiveInFileNameOrder ==
    mailOp = "receive" =>
       /\ \A i, j \in 1..Len(mailRet) :
              i < j => NameNotBehind(mailRet[i], mailRet[j])
       /\ {mailRet[i] : i \in 1..Len(mailRet)}
             = VerifiedOfKind(mbox, mailArg.agent, mailArg.kind)

\* C38: a mailbox entry is deleted exactly once: for one message sent with
\* an id into an agent's mailbox, among any number of
\* delete(agent, message_id) calls, one after the other or racing from
\* several consumers, at most one returns true, and none of them raises.
C38_DeletedOnce ==
    /\ \A k \in Agents \X MsgIds : sends[k] = 1 => trueReturns[k] <= 1
    /\ \A c \in Consumers : deleters[c].outcome # "raised"

\* C24: receive() returns the message of a file only if the checksum the
\* file records equals the digest recomputed from the decoded id, kind,
\* sender, recipient and trimmed body; a file whose checksum trailer is
\* missing or empty is discarded like any other mismatch.
C24_RecordedChecksumMatches ==
    mailOp = "receive" =>
        \A p \in DOMAIN mbox :
            (Looked(p) /\ Returned(p)) =>
                LET d == FromMarkdown(mbox[p])
                IN /\ d.ok
                   /\ RecordedChecksum(mbox[p]) # NoChecksum
                   /\ RecordedChecksum(mbox[p]) = Checksum(d.msg)


(***************************************************************************)
(* The Task Distributor.  It reads the work directory: the files of the    *)
(* Task Store, the directories of the Mailbox Store, and the files the     *)
(* agents write themselves.  A file name is the sequence of its parts      *)
(* between "_", each part a word with an optional number, and an           *)
(* extension.                                                              *)
(***************************************************************************)
Word(w) == [w |-> w, n |-> 0]

Numbered(w, n) == [w |-> w, n |-> n]

File(dir, parts, ext) == [dir |-> dir, parts |-> parts, ext |-> ext]

\* tasks/<dir>/task-<hex>.json, written by TaskManager._save_task
TaskStoreFiles ==
    UNION {{File(d, <<Numbered("task-", id)>>, "json") : id \in DOMAIN disk[d]} : d \in Dirs}

\* the agent directories send_message makes under communication/<direction>/
MailboxDirs ==
    {File(p[1], <<IF p[2] = "master" THEN Word("master")
                  ELSE Numbered("worker-", AgentRank[p[2]])>>, "") : p \in DOMAIN mbox}

\* what there is directly inside a directory
Listing(dir) == {f \in agentFiles \cup TaskStoreFiles \cup MailboxDirs : f.dir = dir}

\* part.startswith("worker")
StartsWithWorker(part) == part.w \in {"worker", "worker-"}

\* glob("*_master_worker*_task_*.md")
IsNotification(f) ==
    /\ f.ext = "md"
    /\ \E i \in 2..Len(f.parts), j \in 1..Len(f.parts) :
          /\ f.parts[i] = Word("master")
          /\ i + 1 <= Len(f.parts) /\ StartsWithWorker(f.parts[i + 1])
          /\ j > i + 1 /\ f.parts[j] = Word("task") /\ j < Len(f.parts)

\* glob("*_worker*_master_task_*.md")
IsReport(f) ==
    /\ f.ext = "md"
    /\ \E i \in 2..Len(f.parts), j \in 1..Len(f.parts) :
          /\ StartsWithWorker(f.parts[i])
          /\ j > i /\ f.parts[j] = Word("master")
          /\ j + 2 <= Len(f.parts) /\ f.parts[j + 1] = Word("task")

None == "None"

\* _extract_task_id_from_report, and the task_id of _parse_comm_filename:
\* "task_" and the part after the first part that is "task"
ExtractTaskId(parts) ==
    IF \E i \in 1..(Len(parts) - 1) : parts[i] = Word("task")
    THEN LET i == CHOOSE i \in 1..(Len(parts) - 1) :
                     /\ parts[i] = Word("task")
                     /\ \A j \in 1..(i - 1) : parts[j] # Word("task")
         IN <<Word("task"), parts[i + 1]>>
    ELSE None

\* the worker of _parse_comm_filename: "worker-" and what is left of the
\* first part that starts with "worker" when "worker" is taken out of it
ParseWorker(parts) ==
    IF \E i \in 1..Len(parts) : StartsWithWorker(parts[i])
    THEN LET i == CHOOSE i \in 1..Len(parts) :
                     /\ StartsWithWorker(parts[i])
                     /\ \A j \in 1..(i - 1) : ~StartsWithWorker(parts[j])
             part == parts[i]
         IN IF part.w = "worker" /\ part.n = 0 THEN None
            ELSE IF part.w = "worker" /\ part.n = 1 THEN "worker-1"
            ELSE IF part.w = "worker" /\ part.n = 2 THEN "worker-2"
            ELSE "worker--"
    ELSE None

\* _parse_comm_filename
ParseCommFilename(parts) ==
    IF ExtractTaskId(parts) # None /\ ParseWorker(parts) # None
    THEN [task_id |-> ExtractTaskId(parts), worker |-> ParseWorker(parts)]
    ELSE [task_id |-> None, worker |-> None]

\* <dir>/<task_id>.yaml exists
YamlExists(dir, task_id) == File(dir, task_id, "yaml") \in Listing(dir)

\* _scan_new_tasks
ScanNewTasks ==
    {f \in Listing("master_to_worker") :
        /\ IsNotification(f)
        /\ ParseCommFilename(f.parts).task_id # None
        /\ LET task_id == ParseCommFilename(f.parts).task_id
           IN /\ ~(task_id \in DOMAIN assignments /\ assignments[task_id].notified)
              /\ YamlExists("pending", task_id) \/ YamlExists("in_progress", task_id)}

\* AgentCommunicator.send_task_notification: True when tmux lists a pane
\* whose title holds the agent's name
SendTaskNotification(worker) == paneHost = "up" /\ worker \in Workers

\* _check_completions without the look into the completed directory
CheckCompletionsByReport(asg) ==
    LET done == {ExtractTaskId(f.parts) :
                    f \in {g \in Listing("worker_to_master") : IsReport(g)}}
    IN [t \in DOMAIN asg |->
           IF t \in done /\ ~asg[t].completed
           THEN [asg[t] EXCEPT !.completed = TRUE]
           ELSE asg[t]]

\* _check_completions
CheckCompletions(asg) ==
    LET done == {ExtractTaskId(f.parts) :
                    f \in {g \in Listing("worker_to_master") : IsReport(g)}}
    IN [t \in DOMAIN asg |->
           IF t \in done /\ YamlExists("completed", t) /\ ~asg[t].completed
           THEN [asg[t] EXCEPT !.completed = TRUE]
           ELSE asg[t]]

\* get_status_summary that counts nothing
EmptySummary == [total |-> 0, notified |-> 0, completed |-> 0, pending |-> 0]

\* get_status_summary
GetStatusSummary ==
    [total |-> Cardinality(DOMAIN assignments),
     notified |-> Cardinality({t \in DOMAIN assignments : assignments[t].notified}),
     completed |-> Cardinality({t \in DOMAIN assignments : assignments[t].completed}),
     pending |-> Cardinality({t \in DOMAIN assignments :
                                 assignments[t].notified /\ ~assignments[t].completed})]

\* TaskDistributor.__init__, before monitor_and_distribute_tasks
DistStart ==
    /\ agentFiles = {}
    /\ paneHost = "up"
    /\ assignments = EmptyMap
    /\ notified = EmptyMap
    /\ iteration = 0
    /\ running = TRUE
    /\ distOp = "init"

\* one round of the loop of monitor_and_distribute_tasks: _scan_new_tasks,
\* _distribute_tasks (the new tasks taken in the order glob gave them, the
\* last TaskAssignment recorded for a task_id staying), _check_completions
Scan ==
    /\ running
    /\ iteration < MaxIter
    /\ LET new == ScanNewTasks
           sent == {f \in new : SendTaskNotification(ParseCommFilename(f.parts).worker)}
           ids == {ParseCommFilename(f.parts).task_id : f \in sent}
       IN IF new # {} /\ paneHost = "missing"
          THEN \* subprocess.run raises FileNotFoundError, which nothing catches
               /\ running' = FALSE
               /\ distOp' = "raise"
               /\ UNCHANGED <<assignments, notified, iteration>>
          ELSE /\ \E last \in [ids -> sent] :
                    /\ \A t \in ids : ParseCommFilename(last[t].parts).task_id = t
                    /\ assignments' = CheckCompletions(
                          [t \in DOMAIN assignments \cup ids |->
                              IF t \in ids
                              THEN [worker |-> ParseCommFilename(last[t].parts).worker,
                                    notified |-> TRUE, completed |-> FALSE]
                              ELSE assignments[t]])
               /\ notified' = [t \in DOMAIN notified \cup ids |->
                                 (IF t \in DOMAIN notified THEN notified[t] ELSE 0)
                                 + Cardinality({f \in sent :
                                       ParseCommFilename(f.parts).task_id = t})]
               /\ iteration' = iteration + 1
               /\ running' = (iteration + 1 < MaxIter)
               /\ distOp' = "scan"
    /\ UNCHANGED <<agentFiles, paneHost>>
    /\ UNCHANGED notDist

\* an agent writes a file as its persona tells it to
AgentWrites(f) ==
    /\ f \notin agentFiles
    /\ agentFiles' = agentFiles \cup {f}
    /\ distOp' = "files"
    /\ UNCHANGED <<paneHost, assignments, notified, iteration, running>>
    /\ UNCHANGED notDist

\* an agent moves a task file to another status directory
AgentMoves(f, dir) ==
    /\ f \in agentFiles
    /\ f.ext = "yaml"
    /\ f.dir # dir
    /\ agentFiles' = (agentFiles \ {f}) \cup {File(dir, f.parts, f.ext)}
    /\ distOp' = "files"
    /\ UNCHANGED <<paneHost, assignments, notified, iteration, running>>
    /\ UNCHANGED notDist

\* the tmux server stops or starts, or the tmux binary is not there
HostChanges(h) ==
    /\ h # paneHost
    /\ paneHost' = h
    /\ distOp' = "host"
    /\ UNCHANGED <<agentFiles, assignments, notified, iteration, running>>
    /\ UNCHANGED notDist

Stamp == Numbered("stamp", 1)

\* the files the agents write: YYYYMMDD_HHMMSS_master_worker[N]_task_[ID].md,
\* the report of a worker, and task_[ID].yaml
AgentFileInputs ==
    {File("master_to_worker", <<Stamp, Word("master"), Numbered("worker", 1),
                                Word("task"), Numbered("", 1)>>, "md"),
     File("master_to_worker", <<Stamp, Word("master"), Numbered("worker", 2),
                                Word("task"), Numbered("", 1)>>, "md"),
     File("worker_to_master", <<Stamp, Numbered("worker", 1), Word("master"),
                                Word("task"), Numbered("", 1)>>, "md"),
     File("pending", <<Word("task"), Numbered("", 1)>>, "yaml")}

\* the task notification and the completion report for a task of the Task
\* Store, sent through the Mailbox Store: (type, sender, recipient)
DistMailInputs == {<<"task", "master", "worker-1">>, <<"status", "worker-1", "master">>}

\* create_task_message: the message about a task has the task's id
SendForTask(id, type, sender, recipient) ==
    /\ id \in DOMAIN tasks
    /\ SendMessage(id, type, sender, recipient, <<"a">>)

DistNext ==
    \/ \E p \in CreatePriorities : CreateTask(p)
    \/ \E id \in TaskIds, o \in Outcomes : UpdateTaskStatus(id, "completed", o[1], o[2])
    \/ \E id \in TaskIds, i \in DistMailInputs : SendForTask(id, i[1], i[2], i[3])
    \/ \E f \in AgentFileInputs : AgentWrites(f)
    \/ \E f \in AgentFileInputs : AgentMoves(f, "completed")
    \/ \E h \in {"up", "down", "missing"} : HostChanges(h)
    \/ Scan

(***************************************************************************)
(* Claims about the Task Store, checked under SpecTask.                    *)
(***************************************************************************)

\* the directory the claims expect for a status
ExpectedDir(s) ==
    CASE s = "pending" -> "pending"
      [] s = "in_progress" -> "in_progress"
      [] OTHER -> "completed"

WhereOnDisk(id) == {d \in Dirs : id \in DOMAIN disk[d]}

\* C1: after any sequence of create / assign / update_status (and delete)
\* calls on one store, every task the store knows has exactly one file
\* <id>.json across the three status directories, and it lies in the
\* directory of the task's in-memory status (failed and cancelled map to
\* completed/).
C1_TaskDirInvariant ==
    \A id \in DOMAIN tasks :
        /\ Cardinality(WhereOnDisk(id)) = 1
        /\ WhereOnDisk(id) = {ExpectedDir(tasks[id].status)}

\* C1 witness: a task that was created, assigned and then failed has its
\* only file in completed/.
C1_Witness ==
    \E id \in DOMAIN tasks :
        /\ tasks[id].status = "failed"
        /\ tasks[id].assigned_to # NoAgent
        /\ op = "update"
        /\ WhereOnDisk(id) = {"completed"}

\* C3: assign on an unknown id or on a task that is not pending returns
\* failure and changes neither the task (status, assigned_to, started_at)
\* nor any file; assign on a pending task returns success, sets
\* assigned_to, status in_progress and started_at, and moves the file from
\* pending/ to in_progress/.
C3_AssignGuard ==
    [][\A id \in TaskIds, a \in Workers :
        AssignTask(id, a) =>
            IF id \in DOMAIN tasks /\ tasks[id].status = "pending"
            THEN /\ ret' = TRUE
                 /\ tasks'[id].assigned_to = a
                 /\ tasks'[id].status = "in_progress"
                 /\ tasks'[id].started_at = now
                 /\ id \in DOMAIN disk["pending"]
                 /\ id \notin DOMAIN disk'["pending"]
                 /\ id \in DOMAIN disk'["in_progress"]
            ELSE /\ ret' = FALSE
                 /\ tasks' = tasks
                 /\ disk' = disk]_vars

\* C3 witness: an assign was refused on a task that is already assigned to
\* a worker and no longer pending.
C3_Witness ==
    /\ op = "assign"
    /\ ret = FALSE
    /\ \E id \in DOMAIN tasks :
          /\ tasks[id].status # "pending"
          /\ tasks[id].assigned_to # NoAgent

(***************************************************************************)
(* The Task Store with _save_task taken one file operation at a time, and  *)
(* a crash (followed by a restart, which rebuilds the store from disk)     *)
(* possible between any two of them.                                       *)
(***************************************************************************)
Idle == [at |-> "idle", id |-> 0, i |-> 0]

\* create_task up to its call of _save_task
CrCreate(prio) ==
    /\ pc.at = "idle"
    /\ nextId <= MaxTasks
    /\ tasks' = Put(tasks, nextId, NewTask(nextId, prio, now))
    /\ pc' = [at |-> "unlink", id |-> nextId, i |-> 1]
    /\ nextId' = nextId + 1
    /\ op' = "create"
    /\ UNCHANGED <<disk, now, ret, committed>>
    /\ UNCHANGED notTask

\* assign_task up to its call of _save_task
CrAssign(id, agent) ==
    /\ pc.at = "idle"
    /\ op' = "assign"
    /\ IF id \in DOMAIN tasks /\ tasks[id].status = "pending"
       THEN /\ tasks' = Put(tasks, id, [tasks[id] EXCEPT !.assigned_to = agent,
                                                         !.status = "in_progress",
                                                         !.started_at = now])
            /\ pc' = [at |-> "unlink", id |-> id, i |-> 1]
            /\ UNCHANGED ret
       ELSE /\ ret' = FALSE
            /\ UNCHANGED <<tasks, pc>>
    /\ UNCHANGED <<disk, nextId, now, committed>>
    /\ UNCHANGED notTask

\* update_task_status up to its call of _save_task
CrUpdate(id, status, result, error) ==
    /\ pc.at = "idle"
    /\ op' = "update"
    /\ IF id \in DOMAIN tasks
       THEN /\ tasks' = Put(tasks, id, Updated(tasks[id], status, result, error))
            /\ pc' = [at |-> "unlink", id |-> id, i |-> 1]
            /\ UNCHANGED ret
       ELSE /\ ret' = FALSE
            /\ UNCHANGED <<tasks, pc>>
    /\ UNCHANGED <<disk, nextId, now, committed>>
    /\ UNCHANGED notTask

\* _save_task: one iteration of the loop that unlinks the old files
CrUnlink ==
    /\ pc.at = "unlink"
    /\ disk' = RemoveOldStep(disk, pc.id, tasks[pc.id].status, pc.i)
    /\ pc' = IF pc.i = Len(TaskStatus) THEN [pc EXCEPT !.at = "open"]
             ELSE [pc EXCEPT !.i = pc.i + 1]
    /\ UNCHANGED <<tasks, nextId, now, op, ret, committed>>
    /\ UNCHANGED notTask

\* _save_task: open(task_file, "w") creates or truncates the file
CrOpen ==
    /\ pc.at = "open"
    /\ LET t == tasks[pc.id]
       IN disk' = WriteFile(disk, GetTaskDir(t.status), t.id, Truncated(t))
    /\ pc' = [pc EXCEPT !.at = "write"]
    /\ UNCHANGED <<tasks, nextId, now, op, ret, committed>>
    /\ UNCHANGED notTask

\* _save_task: json.dump and close; the call returns
CrWrite ==
    /\ pc.at = "write"
    /\ LET t == tasks[pc.id]
       IN disk' = WriteFile(disk, GetTaskDir(t.status), t.id, ToJson(t))
    /\ pc' = Idle
    /\ ret' = TRUE
    /\ committed' = committed \cup {pc.id}
    /\ UNCHANGED <<tasks, nextId, now, op>>
    /\ UNCHANGED notTask

\* the process dies; the next invocation constructs a new TaskManager,
\* whose __init__ runs _load_all_tasks
Crash ==
    /\ tasks' = LoadAllTasks(disk)
    /\ pc' = Idle
    /\ op' = "crash"
    /\ UNCHANGED <<disk, nextId, now, ret, committed>>
    /\ UNCHANGED notTask

CrashNext ==
    \/ Tick
    \/ \E p \in CreatePriorities : CrCreate(p)
    \/ \E id \in TaskIds, a \in Workers : CrAssign(id, a)
    \/ \E id \in TaskIds, s \in StatusSet, o \in Outcomes :
          CrUpdate(id, s, o[1], o[2])
    \/ CrUnlink
    \/ CrOpen
    \/ CrWrite
    \/ Crash


\* C2: a task is never lost or duplicated across a status transition, even
\* if the process crashes partway: at every intermediate step of the file
\* move the file of a task whose create() returned exists in at least one
\* (and at most one) status directory, and a store rebuilt after a crash
\* still contains the task.
C2_NeverLostOrDuplicated ==
    \A id \in committed :
        /\ Cardinality(WhereOnDisk(id)) = 1
        /\ (op = "crash" => id \in DOMAIN tasks)

(***************************************************************************)
(* Claims about the Mailbox Protocol, checked under SpecMsg.               *)
(***************************************************************************)
\* C4: for every valid message m (checksum matching its fields), whatever
\* its body, decode(encode(m)) succeeds, reproduces m's id, sender,
\* recipient, kind and body (the body up to the surrounding whitespace the
\* protocol trims), and verify_checksum() is true on the decoded message.
C4_RoundTrip ==
    (dec # NotDecoded /\ VerifyChecksum(msg)) =>
        /\ dec.ok
        /\ dec.msg.id = msg.id
        /\ dec.msg.sender = msg.sender
        /\ dec.msg.recipient = msg.recipient
        /\ dec.msg.type = msg.type
        /\ dec.msg.content = StripBody(msg.content)
        /\ VerifyChecksum(dec.msg)

\* C5 as stated: any change of the body after the checksum was computed
\* makes verify_checksum() false.
C5_AnyChangeDetected ==
    msg.content # orig => ~VerifyChecksum(msg)

\* C5 amended: a change of the body to a text that differs after trimming
\* leading and trailing whitespace makes verify_checksum() false; with the
\* original body restored verify_checksum() is true, and the stored
\* checksum is throughout the value computed at construction.
C5_TamperDetected ==
    /\ StripBody(msg.content) # StripBody(orig) => ~VerifyChecksum(msg)
    /\ msg.content = orig => VerifyChecksum(msg)
    /\ msg.checksum = <<msg.id, msg.type, msg.sender, msg.recipient, StripBody(orig)>>

\* C5 witness: the body was changed to a different text and
\* verify_checksum() is false.
C5_Witness ==
    /\ StripBody(msg.content) # StripBody(orig)
    /\ Len(orig) > 0
    /\ ~VerifyChecksum(msg)


(***************************************************************************)
(* The monitor command: TaskDistributor.monitor_and_distribute_tasks run   *)
(* by monitor_command over the files the agents write, until its rounds    *)
(* are used up or the user interrupts it (Ctrl+C).                         *)
(***************************************************************************)
notDistMon == <<taskVars, msgVars, mailVars, sessVars, regVars, healthVars,
                paneVars, queueVars, cliVars,
            loopVars,
            delVars,
            reapVars,
            wrapVars,
            otherVars>>

\* monitor_command has not asked for the summary yet
NoStatus == [total |-> -1, notified |-> -1, completed |-> -1, pending |-> -1]

MonIdle == monStatus = NoStatus

\* a second notification file for the same task and worker, a notification
\* file whose worker part has no number, a report for no task id
Stamp2 == Numbered("stamp", 2)

ScanFileInputs ==
    {File("master_to_worker", <<Stamp, Word("master"), Numbered("worker", 1),
                                Word("task"), Numbered("", 1)>>, "md"),
     File("master_to_worker", <<Stamp2, Word("master"), Numbered("worker", 1),
                                Word("task"), Numbered("", 1)>>, "md"),
     File("master_to_worker", <<Stamp, Word("master"), Word("worker"),
                                Word("task"), Numbered("", 1)>>, "md"),
     File("worker_to_master", <<Stamp, Numbered("worker", 1), Word("master"),
                                Word("task"), Numbered("", 1)>>, "md"),
     File("worker_to_master", <<Stamp, Numbered("worker", 1), Word("master"),
                                Word("task"), Word("")>>, "md"),
     File("pending", <<Word("task"), Numbered("", 1)>>, "yaml")}

\* KeyboardInterrupt in time.sleep(interval), between two rounds:
\* monitor_command catches it and asks for the summary
InterruptSleep ==
    /\ running
    /\ iteration > 0
    /\ running' = FALSE
    /\ distOp' = "interrupt"
    /\ monStatus' = GetStatusSummary
    /\ UNCHANGED <<agentFiles, paneHost, assignments, notified, iteration>>
    /\ UNCHANGED notDistMon

\* KeyboardInterrupt inside a round, in _distribute_tasks: the new tasks
\* in done were notified and recorded, the others and _check_completions
\* were not reached
InterruptRound ==
    /\ running
    /\ iteration < MaxIter
    /\ paneHost # "missing"
    /\ \E done \in SUBSET ScanNewTasks :
          LET sent == {f \in done :
                          SendTaskNotification(ParseCommFilename(f.parts).worker)}
              ids == {ParseCommFilename(f.parts).task_id : f \in sent}
              after == [t \in DOMAIN assignments \cup ids |->
                           IF t \in ids
                           THEN [worker |-> "worker-1", notified |-> TRUE,
                                 completed |-> FALSE]
                           ELSE assignments[t]]
          IN /\ \A f \in sent : ParseCommFilename(f.parts).worker = "worker-1"
             /\ assignments' = after
             /\ notified' = [t \in DOMAIN notified \cup ids |->
                               (IF t \in DOMAIN notified THEN notified[t] ELSE 0)
                               + Cardinality({f \in sent :
                                     ParseCommFilename(f.parts).task_id = t})]
             /\ monStatus' = [total |-> Cardinality(DOMAIN after),
                           notified |-> Cardinality({t \in DOMAIN after : after[t].notified}),
                           completed |-> Cardinality({t \in DOMAIN after : after[t].completed}),
                           pending |-> Cardinality({t \in DOMAIN after :
                                          after[t].notified /\ ~after[t].completed})]
    /\ running' = FALSE
    /\ distOp' = "interrupt"
    /\ UNCHANGED <<agentFiles, paneHost, iteration>>
    /\ UNCHANGED notDistMon

\* monitor_and_distribute_tasks has returned True: monitor_command asks
\* for the summary
MonitorCompleted ==
    /\ ~running
    /\ distOp = "scan"
    /\ distOp' = "done"
    /\ monStatus' = GetStatusSummary
    /\ UNCHANGED <<agentFiles, paneHost, assignments, notified, iteration, running>>
    /\ UNCHANGED notDistMon

\* while the monitor runs the agents write and move their files
FilesChange(f) ==
    /\ running
    /\ \/ AgentWrites(f)
       \/ AgentMoves(f, "completed")

\* while the monitor runs the tmux server stops or starts
HostChangesMeanwhile(h) ==
    /\ running
    /\ HostChanges(h)

ScanNext ==
    \/ \E f \in ScanFileInputs : FilesChange(f)
    \/ \E h \in {"up", "down", "missing"} : HostChangesMeanwhile(h)
    \/ Scan
    \/ InterruptSleep
    \/ InterruptRound
    \/ MonitorCompleted


(***************************************************************************)
(* Claims about the Task Distributor, checked under SpecDist.              *)
(***************************************************************************)
\* the task_id under which the distributor would know a task of the Task
\* Store: the name of its file without the extension
StoreTaskId(id) == <<Numbered("task-", id)>>

\* C9: once the Task Store has created a task and its task notification
\* was sent master -> worker-1 through the Mailbox Store, a scan (with the
\* pane host up) marks the task Notified; once the task's file is in the
\* completed directory and the worker's report was sent through the
\* Mailbox Store, a scan marks the Notified task Completed, and the
\* summary of a distributor that knows this task alone is
\* total 1, notified 1, completed 1, pending 0.
C9_EndToEnd ==
    (distOp = "scan" /\ paneHost = "up") =>
        \A id \in DOMAIN tasks :
            LET t == StoreTaskId(id)
                isNotified == t \in DOMAIN assignments /\ assignments[t].notified
            IN /\ <<"master_to_worker", "worker-1", id, "task">> \in DOMAIN mbox
                     => isNotified
               /\ ( /\ isNotified
                    /\ <<"worker_to_master", "worker-1", id, "status">> \in DOMAIN mbox
                    /\ id \in DOMAIN disk["completed"] )
                     => /\ assignments[t].completed
                        /\ DOMAIN assignments = {t} =>
                              GetStatusSummary = [total |-> 1, notified |-> 1,
                                                  completed |-> 1, pending |-> 0]


(***************************************************************************)
(* The Session Supervisor: SessionManager, the tmux server it talks to     *)
(* and the background processes of a headless session.                     *)
(***************************************************************************)
NoReason == "None"

\* an exception: its class and a keyword its message holds
NoFault == [type |-> "none", message |-> ""]

Faults ==
    {[type |-> "FileNotFoundError", message |-> "tmux"],
     [type |-> "LibTmuxException", message |-> "Operation not permitted"],
     [type |-> "LibTmuxException", message |-> "server exited unexpectedly"]}

Keywords ==
    {"Operation not permitted", "can't connect", "No such file or directory",
     "socket not found", "tmux executable not found"}

\* _should_fallback_to_headless
ShouldFallbackToHeadless(error) ==
    error.type = "FileNotFoundError" \/ error.message \in Keywords

\* agent_specs of _start_headless_session with the names it gives them:
\* "master", then "worker-1" .. "worker-N"
AgentSpecsWorkersOnly == [i \in 1..WorkerCount |-> <<"worker", i>>]

AgentSpecs == <<<<"master", 0>>>> \o [i \in 1..WorkerCount |-> <<"worker", i>>]

NoState == [present |-> FALSE, agents |-> <<>>, tmux_error |-> NoReason]

\* _is_pid_running
IsPidRunning(pid) == pid \in procs

\* a session_exists that takes the state file itself for a session
HeadlessFilePresent == stateFile.present

\* _headless_session_exists: what it returns
HeadlessAlive ==
    /\ stateFile.present
    /\ \E i \in 1..Len(stateFile.agents) : IsPidRunning(stateFile.agents[i].pid)

\* session_exists: find_where finds the session
TmuxFound == tmux_available /\ tmuxFault = NoFault /\ tmuxSession

\* session_exists: what it returns
SessionExists == TmuxFound \/ HeadlessAlive

\* session_exists: the state file it leaves (_headless_session_exists
\* removes a file none of whose PIDs is running)
StateAfterExists == IF ~TmuxFound /\ ~HeadlessAlive THEN NoState ELSE stateFile

\* the first PIDs not used so far
Spawn(specs) == [i \in 1..Len(specs) |-> [pid |-> nextPid + i - 1, name |-> specs[i]]]

\* SessionManager.__init__ on a work directory without a session
SessStart ==
    /\ tmuxFault \in {NoFault} \cup Faults
    /\ tmuxSession = FALSE
    /\ tmux_available \in BOOLEAN
    /\ mode = IF tmux_available THEN "tmux" ELSE "headless"
    /\ tmux_failure_reason = IF tmux_available THEN NoReason ELSE "tmux executable not found"
    /\ procs = {}
    /\ nextPid = 1
    /\ stateFile = NoState
    /\ spawned = <<>>
    /\ sessOp = "init"
    /\ sessRet = FALSE
    /\ sessRaised = FALSE
    /\ reaped = FALSE
    /\ signalled = {}
    /\ view = "none"

\* no session manager at work
SessIdle ==
    /\ SessStart
    /\ tmux_available
    /\ tmuxFault = NoFault

\* the call is neither a session_exists() on its own, nor a kill_session(),
\* nor an attach()
NoOutcome ==
    /\ reaped' = FALSE
    /\ signalled' = {}
    /\ view' = "none"

\* SessionManager(config, work_dir) in a later invocation of the CLI;
\* installed: shutil.which("tmux") finds the executable
NewManager(installed) ==
    /\ tmux_available' = installed
    /\ mode' = IF installed THEN "tmux" ELSE "headless"
    /\ tmux_failure_reason' = IF installed THEN NoReason ELSE "tmux executable not found"
    /\ sessOp' = "new"
    /\ spawned' = <<>>
    /\ sessRet' = FALSE
    /\ sessRaised' = FALSE
    /\ NoOutcome
    /\ UNCHANGED <<tmuxFault, tmuxSession, procs, nextPid, stateFile>>
    /\ UNCHANGED notSess

\* _start_headless_session with the failure reason to record
StartHeadlessSession(reason) ==
    /\ spawned' = Spawn(AgentSpecs)
    /\ procs' = procs \cup {nextPid + i - 1 : i \in 1..Len(AgentSpecs)}
    /\ nextPid' = nextPid + Len(AgentSpecs)
    /\ stateFile' = [present |-> TRUE, agents |-> Spawn(AgentSpecs), tmux_error |-> reason]

\* create_session; late: an error of the tmux server arrives only after
\* new_session has made the session
CreateSession(late) ==
    /\ nextPid <= (MaxStarts - 1) * (1 + WorkerCount) + 1
    /\ sessOp' = "create"
    /\ sessRet' = FALSE
    /\ NoOutcome
    /\ UNCHANGED tmuxFault
    /\ IF SessionExists
       THEN /\ spawned' = <<>>
            /\ sessRaised' = FALSE
            /\ UNCHANGED <<tmuxSession, tmux_available, mode, tmux_failure_reason,
                           procs, nextPid, stateFile>>
       ELSE IF mode = "headless"
       THEN /\ StartHeadlessSession(tmux_failure_reason)
            /\ sessRaised' = FALSE
            /\ UNCHANGED <<tmuxSession, tmux_available, mode, tmux_failure_reason>>
       ELSE IF tmuxFault = NoFault
       THEN /\ tmuxSession' = TRUE
            /\ stateFile' = StateAfterExists
            /\ spawned' = <<>>
            /\ sessRaised' = FALSE
            /\ UNCHANGED <<tmux_available, mode, tmux_failure_reason, procs, nextPid>>
       ELSE IF ShouldFallbackToHeadless(tmuxFault)
       THEN \* _switch_to_headless, _start_headless_session
            /\ tmux_available' = FALSE
            /\ mode' = "headless"
            /\ tmux_failure_reason' = tmuxFault.message
            /\ StartHeadlessSession(tmuxFault.message)
            /\ tmuxSession' = (tmuxSession \/ late)
            /\ sessRaised' = FALSE
       ELSE \* the error is raised to the caller
            /\ sessRaised' = TRUE
            /\ tmuxSession' = (tmuxSession \/ late)
            /\ stateFile' = StateAfterExists
            /\ spawned' = <<>>
            /\ UNCHANGED <<tmux_available, mode, tmux_failure_reason, procs, nextPid>>
    /\ UNCHANGED notSess

\* session_exists, called on its own
CheckSession ==
    /\ sessRet' = SessionExists
    /\ stateFile' = StateAfterExists
    /\ reaped' = (stateFile.present /\ ~StateAfterExists.present)
    /\ signalled' = {}
    /\ view' = "none"
    /\ sessOp' = "exists"
    /\ spawned' = <<>>
    /\ sessRaised' = FALSE
    /\ UNCHANGED <<tmuxFault, tmuxSession, tmux_available, mode,
                   tmux_failure_reason, procs, nextPid>>
    /\ UNCHANGED notSess

\* a background agent process ends
ProcessExits(pid) ==
    /\ pid \in procs
    /\ procs' = procs \ {pid}
    /\ UNCHANGED <<tmuxFault, tmuxSession, tmux_available, mode,
                   tmux_failure_reason, nextPid, stateFile, spawned, sessOp,
                   sessRet, sessRaised, reaped, signalled, view>>
    /\ UNCHANGED notSess

\* the tmux server becomes unusable, or usable again
TmuxChanges(fault) ==
    /\ fault # tmuxFault
    /\ tmuxFault' = fault
    /\ UNCHANGED <<tmuxSession, tmux_available, mode, tmux_failure_reason, procs,
                   nextPid, stateFile, spawned, sessOp, sessRet, sessRaised,
                   reaped, signalled, view>>
    /\ UNCHANGED notSess

\* the PIDs the state file records
RecordedPids == {stateFile.agents[i].pid : i \in 1..Len(stateFile.agents)}

\* kill_session
KillSession ==
    /\ sessOp' = "kill"
    /\ sessRet' = FALSE
    /\ spawned' = <<>>
    /\ reaped' = FALSE
    /\ view' = "none"
    /\ UNCHANGED <<tmuxFault, tmux_available, mode, tmux_failure_reason, procs,
                   nextPid>>
    /\ IF mode = "headless" \/ (~tmux_available /\ HeadlessAlive)
       THEN \* _stop_headless_agents, or the warning after a stale file
            \* was removed
            /\ signalled' = IF HeadlessAlive THEN RecordedPids ELSE {}
            /\ stateFile' = NoState
            /\ sessRaised' = FALSE
            /\ UNCHANGED tmuxSession
       ELSE IF ~tmux_available \/ ~SessionExists
       THEN \* nothing to kill
            /\ signalled' = {}
            /\ stateFile' = IF HeadlessAlive THEN stateFile ELSE NoState
            /\ sessRaised' = FALSE
            /\ UNCHANGED tmuxSession
       ELSE IF tmuxFault # NoFault
       THEN \* find_where raises
            /\ signalled' = {}
            /\ sessRaised' = TRUE
            /\ UNCHANGED <<tmuxSession, stateFile>>
       ELSE IF tmuxSession
       THEN \* _save_session_state, session.kill_session,
            \* _remove_headless_state
            /\ tmuxSession' = FALSE
            /\ stateFile' = NoState
            /\ signalled' = {}
            /\ sessRaised' = FALSE
       ELSE \* find_where returns None
            /\ signalled' = {}
            /\ sessRaised' = FALSE
            /\ UNCHANGED <<tmuxSession, stateFile>>
    /\ UNCHANGED notSess

\* the exception subprocess.run(["tmux", "attach-session", ...], check=True)
\* raises: the executable is not found, or tmux exits with a status other
\* than 0 because it cannot reach its server or the server has no such
\* session
CalledProcessError ==
    [type |-> "CalledProcessError", message |-> "returned non-zero exit status 1"]

AttachError ==
    IF tmuxFault.type = "FileNotFoundError" THEN tmuxFault
    ELSE IF tmuxFault # NoFault \/ ~tmuxSession THEN CalledProcessError
    ELSE NoFault

\* attach
Attach ==
    /\ sessOp' = "attach"
    /\ sessRet' = FALSE
    /\ spawned' = <<>>
    /\ reaped' = FALSE
    /\ signalled' = {}
    /\ UNCHANGED <<tmuxFault, tmuxSession, procs, nextPid>>
    /\ IF mode = "headless"
       THEN \* _attach_headless_dashboard, or RuntimeError
            /\ view' = IF HeadlessAlive THEN "dashboard" ELSE "none"
            /\ sessRaised' = ~HeadlessAlive
            /\ stateFile' = IF HeadlessAlive THEN stateFile ELSE NoState
            /\ UNCHANGED <<tmux_available, mode, tmux_failure_reason>>
       ELSE IF ~SessionExists
       THEN \* RuntimeError
            /\ view' = "none"
            /\ sessRaised' = TRUE
            /\ stateFile' = StateAfterExists
            /\ UNCHANGED <<tmux_available, mode, tmux_failure_reason>>
       ELSE IF AttachError = NoFault
       THEN /\ view' = "tmux"
            /\ sessRaised' = FALSE
            /\ UNCHANGED <<tmux_available, mode, tmux_failure_reason, stateFile>>
       ELSE IF ShouldFallbackToHeadless(AttachError)
       THEN \* _switch_to_headless, then the dashboard or the error again
            /\ tmux_available' = FALSE
            /\ mode' = "headless"
            /\ tmux_failure_reason' = AttachError.message
            /\ view' = IF HeadlessAlive THEN "dashboard" ELSE "none"
            /\ sessRaised' = ~HeadlessAlive
            /\ stateFile' = IF HeadlessAlive THEN stateFile ELSE NoState
       ELSE \* the error is raised to the caller
            /\ view' = "none"
            /\ sessRaised' = TRUE
            /\ UNCHANGED <<tmux_available, mode, tmux_failure_reason, stateFile>>
    /\ UNCHANGED notSess

Pids == 1..(MaxStarts * (1 + WorkerCount))

(***************************************************************************)
(* A headless session with its wrapper processes.  Each background agent   *)
(* is a python process running HEADLESS_AGENT_SCRIPT: it starts the        *)
(* agent's command with bash and waits for it, or, without a command,      *)
(* writes a heartbeat every 5 s until its stop flag is set; the handler    *)
(* of SIGTERM and SIGINT sets the flag and returns.                        *)
(***************************************************************************)
notSessWrap == <<taskVars, msgVars, mailVars, distVars, regVars, healthVars, paneVars,
                 queueVars, cliVars, monVars, loopVars, delVars, reapVars,
            otherVars>>

NoWrapper == [at |-> "none", stop |-> FALSE]

\* no background agent was started
WrapIdle ==
    /\ wrap = [pid \in Pids |-> NoWrapper]
    /\ killed = {}

\* create_session of a SessionManager in mode headless; has_command: the
\* agent's command of the configuration is not empty
HeadlessCreate(has_command) ==
    /\ mode = "headless"
    /\ nextPid <= (MaxStarts - 1) * (1 + WorkerCount) + 1
    /\ sessOp' = "create"
    /\ sessRet' = FALSE
    /\ sessRaised' = FALSE
    /\ NoOutcome
    /\ UNCHANGED <<tmuxFault, tmuxSession, tmux_available, mode, tmux_failure_reason>>
    /\ IF SessionExists
       THEN /\ spawned' = <<>>
            /\ UNCHANGED <<procs, nextPid, stateFile, wrap>>
       ELSE /\ StartHeadlessSession(tmux_failure_reason)
            /\ wrap' = [pid \in Pids |->
                          IF pid \in nextPid..(nextPid + Len(AgentSpecs) - 1)
                          THEN [at |-> IF has_command THEN "command" ELSE "heartbeat",
                                stop |-> FALSE]
                          ELSE wrap[pid]]
    /\ UNCHANGED killed
    /\ UNCHANGED notSessWrap

\* kill_session of a SessionManager in mode headless: _stop_headless_agents
\* sends SIGTERM to every recorded PID and removes the state file; the
\* handler of a wrapper that is alive sets its stop flag
KillHeadless ==
    /\ mode = "headless"
    /\ sessOp' = "kill"
    /\ sessRet' = FALSE
    /\ sessRaised' = FALSE
    /\ spawned' = <<>>
    /\ reaped' = FALSE
    /\ view' = "none"
    /\ stateFile' = NoState
    /\ IF HeadlessAlive
       THEN /\ signalled' = RecordedPids
            /\ killed' = RecordedPids
            /\ wrap' = [pid \in Pids |->
                          IF pid \in RecordedPids \cap procs
                          THEN [wrap[pid] EXCEPT !.stop = TRUE]
                          ELSE wrap[pid]]
       ELSE /\ signalled' = {}
            /\ UNCHANGED <<killed, wrap>>
    /\ UNCHANGED <<tmuxFault, tmuxSession, tmux_available, mode, tmux_failure_reason,
                   procs, nextPid>>
    /\ UNCHANGED notSessWrap

\* what the steps of a wrapper leave alone
WrapperFrame ==
    /\ UNCHANGED <<tmuxFault, tmuxSession, tmux_available, mode, tmux_failure_reason,
                   nextPid, stateFile, spawned, sessOp, sessRet, sessRaised, reaped,
                   signalled, view>>
    /\ UNCHANGED killed
    /\ UNCHANGED notSessWrap

\* the agent's command ends on its own: proc.wait() returns, the wrapper
\* logs the exit code and skips the heartbeat loop
CommandExits(pid) ==
    /\ pid \in procs
    /\ wrap[pid].at = "command"
    /\ wrap' = [wrap EXCEPT ![pid].at = "shutdown"]
    /\ UNCHANGED procs
    /\ WrapperFrame

\* time.sleep(5) of the heartbeat loop returns and `while not stop` finds
\* the flag set
HeartbeatWakes(pid) ==
    /\ pid \in procs
    /\ wrap[pid].at = "heartbeat"
    /\ wrap[pid].stop
    /\ wrap' = [wrap EXCEPT ![pid].at = "shutdown"]
    /\ UNCHANGED procs
    /\ WrapperFrame

\* the wrapper logs the shutdown and its process ends
WrapperShutdown(pid) ==
    /\ pid \in procs
    /\ wrap[pid].at = "shutdown"
    /\ wrap' = [wrap EXCEPT ![pid].at = "ended"]
    /\ procs' = procs \ {pid}
    /\ WrapperFrame

KillNext ==
    \/ \E has_command \in BOOLEAN : HeadlessCreate(has_command)
    \/ KillHeadless
    \/ \E pid \in Pids : CommandExits(pid)
    \/ \E pid \in Pids : HeartbeatWakes(pid)
    \/ \E pid \in Pids : WrapperShutdown(pid)

\* a wrapper that can take a step of its own script takes it; nothing makes
\* an agent's command end
WrapperFairness ==
    \A pid \in Pids : WF_vars(HeartbeatWakes(pid)) /\ WF_vars(WrapperShutdown(pid))


\* create_session called again and again, each time by the same or by a
\* new SessionManager, while agent processes end and the tmux server
\* becomes unreachable or reachable
CreateNext ==
    \/ \E installed \in BOOLEAN : NewManager(installed)
    \/ \E late \in BOOLEAN : CreateSession(late)
    \/ \E pid \in Pids : ProcessExits(pid)
    \/ \E f \in {NoFault} \cup Faults : TmuxChanges(f)

SessNext ==
    \/ \E installed \in BOOLEAN : NewManager(installed)
    \/ \E late \in BOOLEAN : CreateSession(late)
    \/ CheckSession
    \/ KillSession
    \/ Attach
    \/ \E pid \in Pids : ProcessExits(pid)
    \/ \E f \in {NoFault} \cup Faults : TmuxChanges(f)

(***************************************************************************)
(* Claims about the Session Supervisor, checked under SpecSess.            *)
(***************************************************************************)
\* C10: a create_session() that finds no session, with the pane host
\* unusable (the executable was not found, so that the supervisor is in
\* headless mode already, or the creation raises a recognized error), ends
\* with the supervisor in headless mode and a failure reason recorded,
\* spawns exactly 1 + worker_count new background processes, master first
\* and then worker-1 .. worker-N, and writes a HeadlessSessionState that
\* lists exactly these agents with their PIDs.
C10_HeadlessFallback ==
    [][\A late \in BOOLEAN :
        (/\ CreateSession(late)
         /\ ~SessionExists
         /\ mode = "headless" \/ ShouldFallbackToHeadless(tmuxFault))
        => /\ mode' = "headless"
           /\ ~tmux_available'
           /\ tmux_failure_reason' # NoReason
           /\ ~sessRaised'
           /\ Len(spawned') = 1 + WorkerCount
           /\ spawned'[1].name = <<"master", 0>>
           /\ \A i \in 1..WorkerCount : spawned'[i + 1].name = <<"worker", i>>
           /\ \A i, j \in 1..Len(spawned') : spawned'[i].pid = spawned'[j].pid => i = j
           /\ \A i \in 1..Len(spawned') : spawned'[i].pid \notin procs
           /\ procs' = procs \cup {spawned'[i].pid : i \in 1..Len(spawned')}
           /\ stateFile'.present
           /\ stateFile'.agents = spawned'
           /\ stateFile'.tmux_error = tmux_failure_reason']_vars

\* C10 witness: a create_session() met a recognized tmux error, the
\* supervisor is in headless mode with that error recorded, and the state
\* file lists the 1 + worker_count agents it spawned.
C10_Witness ==
    /\ sessOp = "create"
    /\ mode = "headless"
    /\ tmux_failure_reason = "Operation not permitted"
    /\ Len(spawned) = 1 + WorkerCount
    /\ stateFile.present
    /\ stateFile.agents = spawned

\* a state file is there and a process with one of its PIDs is running
SomeRecordedPidAlive ==
    /\ stateFile.present
    /\ \E pid \in RecordedPids : pid \in procs

\* C16: session_exists() returns true iff its lookup finds a live tmux
\* session of the configured name or the headless state file exists with
\* at least one recorded PID alive; when the lookup finds no tmux session
\* and the state file exists with none of its PIDs alive, it returns false
\* and removes the stale state file; in every other case it leaves the
\* state file as it was.
C16_SessionExists ==
    [][CheckSession =>
        /\ sessRet' = (TmuxFound \/ SomeRecordedPidAlive)
        /\ IF ~TmuxFound /\ stateFile.present /\ ~SomeRecordedPidAlive
           THEN ~sessRet' /\ ~stateFile'.present
           ELSE stateFile' = stateFile]_vars

\* C16 as stated: whenever the state file exists and none of its PIDs is
\* alive, session_exists() returns false and removes the file.
C16_AlwaysReaps ==
    [][CheckSession =>
        /\ sessRet' = (TmuxFound \/ SomeRecordedPidAlive)
        /\ (stateFile.present /\ ~SomeRecordedPidAlive)
              => ~sessRet' /\ ~stateFile'.present]_vars

\* C16 witness: a session_exists() found a state file left by a headless
\* session whose processes have all ended, removed it and returned false.
C16_Witness ==
    /\ sessOp = "exists"
    /\ reaped
    /\ ~sessRet
    /\ ~stateFile.present
    /\ nextPid > 1
    /\ procs = {}

\* the headless session that exists was started by a fallback: its state
\* file records the error of the tmux server that _switch_to_headless took
HeadlessByFallback ==
    /\ SomeRecordedPidAlive
    /\ stateFile.tmux_error \in {f.message : f \in Faults}

\* C30: a fallback to headless mode is permanent for the lifetime of the
\* session: after the switch, while the headless session it started exists
\* (its state file is there and a process it records is alive), the
\* supervisor is not in tmux mode again; and in every reachable state mode
\* is "tmux" exactly when tmux_available is true.
C30_FallbackPermanent ==
    /\ mode = "tmux" <=> tmux_available
    /\ HeadlessByFallback => mode = "headless"

\* C40: create_session() on an existing session is a no-op: when
\* session_exists() is true it spawns no process, creates no pane-host
\* session and does not rewrite the HeadlessSessionState; so, however often
\* create_session() is called, a work directory whose session is there (its
\* pane-host session, or agent processes that are alive) gets no further
\* agents, and every running agent process is recorded in the session state.
C40_CreateIdempotent ==
    [][\A late \in BOOLEAN :
          CreateSession(late) =>
             /\ SessionExists =>
                   /\ procs' = procs
                   /\ tmuxSession' = tmuxSession
                   /\ stateFile' = stateFile
                   /\ spawned' = <<>>
             /\ (tmuxSession \/ procs # {}) => procs' = procs
             /\ procs' \subseteq {stateFile'.agents[i].pid :
                                     i \in 1..Len(stateFile'.agents)}]_vars

\* C36: after kill_session() on a headless session every recorded agent
\* process eventually terminates: the wrapper stops on the terminate signal
\* whether it is in its heartbeat loop or waiting on the agent's command,
\* and no agent command keeps running after the state file was removed.
C36_KilledAgentsTerminate ==
    (killed # {}) ~> (\A pid \in killed : pid \notin procs /\ wrap[pid].at # "command")

\* C17: a kill_session() that returns without error on an existing session
\* leaves no session: a tmux session it found is destroyed, a headless
\* session has had SIGTERM sent to every recorded PID and its state file
\* removed, and a following session_exists() is false, whichever
\* SessionManager instance performs the kill.
C17_KillEndsSession ==
    [][(KillSession /\ SessionExists /\ ~sessRaised')
        => /\ ~SessionExists'
           /\ TmuxFound => ~tmuxSession'
           /\ SomeRecordedPidAlive
                => RecordedPids \subseteq signalled' /\ ~stateFile'.present]_vars

\* C18: an attach() on an existing session while tmux is unusable for a
\* recognized reason (executable missing, permission denied, socket
\* absent) switches the supervisor to headless mode and, when a headless
\* session exists, shows the headless status view instead of raising.
C18_AttachFallback ==
    [][(/\ Attach
        /\ mode = "tmux"
        /\ SessionExists
        /\ ShouldFallbackToHeadless(tmuxFault))
        => /\ mode' = "headless"
           /\ ~tmux_available'
           /\ SomeRecordedPidAlive => view' = "dashboard" /\ ~sessRaised']_vars

(***************************************************************************)
(* The Process Supervisor: AgentController and the registry file           *)
(* cache/agent_states/agents.json.  Every invocation of the CLI builds its *)
(* own AgentController on the work directory; Supervisors are the          *)
(* instances that are alive at the same time.  start_time, command and    *)
(* log_file of an AgentInfo are written once and never read by the         *)
(* operations below; they are left out.                                    *)
(***************************************************************************)
Supervisors == {1, 2}

RegAgents == {"master", "worker-1"}

\* pid=None of register_agent; "if pid" is false for None and for 0
NoPid == 0

PidInputs == 0..MaxPid

AgentStatuses == {"running", "stopped", "error"}

AgentType(agent_id) == IF agent_id = "master" THEN "master" ELSE "worker"

\* the AgentInfo register_agent builds
AgentInfo(agent_id, pid) ==
    [type |-> AgentType(agent_id), pid |-> pid,
     status |-> IF pid # NoPid THEN "running" ELSE "stopped"]

\* AgentController.is_agent_running as supervisor i answers it
IsAgentRunning(i, agent_id) ==
    /\ agent_id \in DOMAIN agents[i]
    /\ agents[i][agent_id].pid # NoPid
    /\ agents[i][agent_id].pid \in livePids

\* a cleanup_dead_agents that collects every entry that is not running,
\* with or without a PID
DeadAgentsWithoutPidToo(i) ==
    {a \in DOMAIN agents[i] : ~IsAgentRunning(i, a)}

\* the entries cleanup_dead_agents of supervisor i collects
DeadAgents(i) ==
    {a \in DOMAIN agents[i] : agents[i][a].pid # NoPid /\ ~IsAgentRunning(i, a)}

RegStart ==
    /\ agentsFile = EmptyMap
    /\ agents = [i \in Supervisors |-> EmptyMap]
    /\ livePids = 1..MaxPid
    /\ registered = {}
    /\ regOp = "init"

\* AgentController.__init__: _load_agent_states (no file: nothing is loaded)
NewController(i) ==
    /\ agents' = [agents EXCEPT ![i] = agentsFile]
    /\ regOp' = "new"
    /\ UNCHANGED <<agentsFile, livePids, registered>>
    /\ UNCHANGED notReg

\* AgentController.register_agent
RegisterAgent(i, agent_id, pid) ==
    /\ agents' = [agents EXCEPT ![i] = Put(agents[i], agent_id, AgentInfo(agent_id, pid))]
    /\ agentsFile' = agents'[i]
    /\ registered' = registered \cup {agent_id}
    /\ regOp' = "register"
    /\ UNCHANGED livePids
    /\ UNCHANGED notReg

\* AgentController.unregister_agent
UnregisterAgent(i, agent_id) ==
    /\ IF agent_id \in DOMAIN agents[i]
       THEN /\ agents' = [agents EXCEPT ![i] = Remove(agents[i], agent_id)]
            /\ agentsFile' = agents'[i]
       ELSE UNCHANGED <<agents, agentsFile>>
    /\ registered' = registered \ {agent_id}
    /\ regOp' = "unregister"
    /\ UNCHANGED livePids
    /\ UNCHANGED notReg

\* AgentController.update_agent_status
UpdateAgentStatus(i, agent_id, status) ==
    /\ IF agent_id \in DOMAIN agents[i]
       THEN /\ agents' = [agents EXCEPT ![i][agent_id].status = status]
            /\ agentsFile' = agents'[i]
       ELSE UNCHANGED <<agents, agentsFile>>
    /\ regOp' = "status"
    /\ UNCHANGED <<livePids, registered>>
    /\ UNCHANGED notReg

\* AgentController.stop_agent: terminate(), wait(), kill() after the timeout
StopAgent(i, agent_id) ==
    /\ IF IsAgentRunning(i, agent_id)
       THEN /\ livePids' = livePids \ {agents[i][agent_id].pid}
            /\ agents' = [agents EXCEPT ![i][agent_id].status = "stopped"]
            /\ agentsFile' = agents'[i]
       ELSE UNCHANGED <<agents, agentsFile, livePids>>
    /\ regOp' = "stop"
    /\ UNCHANGED registered
    /\ UNCHANGED notReg

\* the registry of supervisor i after cleanup_dead_agents
AfterCleanup(i) == [a \in (DOMAIN agents[i]) \ DeadAgents(i) |-> agents[i][a]]

\* cleanup_dead_agents was not called
ReapIdle == cleanupRet = 0

notRegReap == <<taskVars, msgVars, mailVars, distVars, sessVars, healthVars, paneVars,
                queueVars, cliVars, monVars, loopVars, delVars,
            wrapVars,
            otherVars>>

\* AgentController.cleanup_dead_agents
CleanupDeadAgents(i) ==
    /\ agents' = [agents EXCEPT ![i] = AfterCleanup(i)]
    /\ agentsFile' = IF DeadAgents(i) # {} THEN AfterCleanup(i) ELSE agentsFile
    /\ registered' = registered \ DeadAgents(i)
    /\ regOp' = "cleanup"
    /\ cleanupRet' = Cardinality(DeadAgents(i))
    /\ UNCHANGED livePids
    /\ UNCHANGED notRegReap

\* a process ends
PidExits(pid) ==
    /\ pid \in livePids
    /\ livePids' = livePids \ {pid}
    /\ regOp' = "exit"
    /\ UNCHANGED <<agentsFile, agents, registered>>
    /\ UNCHANGED notReg

\* the statuses SpecReg passes to update_agent_status
StatusInputs == {"error"}

RegNext ==
    \/ \E i \in Supervisors : NewController(i)
    \/ \E i \in Supervisors, a \in RegAgents, pid \in PidInputs : RegisterAgent(i, a, pid)
    \/ \E i \in Supervisors, a \in RegAgents : UnregisterAgent(i, a)
    \/ \E i \in Supervisors, a \in RegAgents, s \in StatusInputs : UpdateAgentStatus(i, a, s)
    \/ \E i \in Supervisors, a \in RegAgents : StopAgent(i, a)
    \/ \E i \in Supervisors : CleanupDeadAgents(i)
    \/ \E pid \in 1..MaxPid : PidExits(pid)

(***************************************************************************)
(* Claims about the Process Supervisor, checked under SpecReg.             *)
(***************************************************************************)
\* C15: the registry file is written by every mutation, so a Process
\* Supervisor constructed at any later moment (it loads the file) knows
\* every agent that was registered and not unregistered since, also when
\* two supervisors on the same work directory interleave their mutations.
C15_RegistryKnown == registered \subseteq DOMAIN agentsFile

(***************************************************************************)
(* The Health Monitor: HealthMonitor on the AgentController of             *)
(* supervisor MonitorSup.  An error message is the text and the keywords   *)
(* of _classify_error that its lowercased text holds; the timestamp and    *)
(* the details of an ErrorRecord are left out.                             *)
(***************************************************************************)
MonitorSup == 1

HealthStatus == {"healthy", "degraded", "unhealthy", "unknown"}

ErrorType == {"rate_limit", "crash", "timeout", "network", "resource", "unknown"}

NoError == [text |-> "None", keywords |-> {}]

NotRunningError == [text |-> "Agent is not running", keywords |-> {"not running"}]

NoStatsError == [text |-> "Could not retrieve agent stats", keywords |-> {}]

HighUsageError == [text |-> "High resource usage", keywords |-> {}]

\* get_agent_stats returned None
NoStats == [available |-> FALSE, cpu_percent |-> 0, memory_mb |-> 0]

Stats(cpu, mem) == [available |-> TRUE, cpu_percent |-> cpu, memory_mb |-> mem]

\* HealthCheck(agent_id=..., status=...)
HealthCheck(agent_id, status, st, error) ==
    [agent_id |-> agent_id, status |-> status, cpu_percent |-> st.cpu_percent,
     memory_mb |-> st.memory_mb, error |-> error]

\* a check that looks at the resource usage before asking whether the
\* agent runs
CheckStatsFirst(agent_id, st) ==
    IF st.available /\ (st.cpu_percent > CpuLimit \/ st.memory_mb > MemoryLimitMb)
    THEN HealthCheck(agent_id, "degraded", st, HighUsageError)
    ELSE IF ~IsAgentRunning(MonitorSup, agent_id)
    THEN HealthCheck(agent_id, "unhealthy", NoStats, NotRunningError)
    ELSE IF ~st.available
    THEN HealthCheck(agent_id, "unknown", NoStats, NoStatsError)
    ELSE HealthCheck(agent_id, "healthy", st, NoError)

\* check_agent_health: the HealthCheck it returns; st is what
\* get_agent_stats answers when it is asked
CheckResult(agent_id, st) ==
    IF ~IsAgentRunning(MonitorSup, agent_id)
    THEN HealthCheck(agent_id, "unhealthy", NoStats, NotRunningError)
    ELSE IF ~st.available
    THEN HealthCheck(agent_id, "unknown", NoStats, NoStatsError)
    ELSE IF st.cpu_percent > CpuLimit \/ st.memory_mb > MemoryLimitMb
    THEN HealthCheck(agent_id, "degraded", st, HighUsageError)
    ELSE HealthCheck(agent_id, "healthy", st, NoError)

\* check_agent_health: only a check that reaches the end of the function
\* is kept in _health_checks; the two early returns skip the assignment
CheckKept(r) == r.status \in {"degraded", "healthy"}

\* get_health_status(agent_id)["status"]
GetHealthStatus(checks, agent_id) ==
    IF agent_id \in DOMAIN checks THEN checks[agent_id].status ELSE "unknown"

\* _classify_error
ClassifyError(error) ==
    LET has(k) == k \in error.keywords
    IN IF has("rate limit") \/ has("429") THEN "rate_limit"
       ELSE IF has("timeout") THEN "timeout"
       ELSE IF has("network") \/ has("connection") THEN "network"
       ELSE IF has("memory") \/ has("cpu") THEN "resource"
       ELSE IF has("crash") \/ has("not running") THEN "crash"
       ELSE "unknown"

\* the ErrorRecord list of an agent (_error_records.get(agent_id, []))
RecordsOf(recs, agent_id) == IF agent_id \in DOMAIN recs THEN recs[agent_id] ELSE <<>>

\* a count of earlier errors that forgets all of them
PriorNone(records, kind) == 0

\* len([e for e in previous_errors if e.error_type == error_type])
PriorSameKind(records, kind) ==
    Cardinality({n \in 1..Len(records) : records[n].error_type = kind})

\* the Health Monitor's own state, as the operators below pass it on
HealthState ==
    [checks |-> health_checks, records |-> error_records, files |-> errorFiles,
     recov |-> recoveries, hc |-> hc]

\* check_agent_health on the state h
AfterCheck(h, r) ==
    [h EXCEPT !.hc = r,
              !.checks = IF CheckKept(r) THEN Put(h.checks, r.agent_id, r) ELSE @]

\* handle_unhealthy_agent on the state h: the record is appended and the
\* list saved (_save_error_record); below the ceiling attempt_recovery is
\* called, otherwise the record object is marked and saved a second time
AfterHandle(h, agent_id, error) ==
    LET kind == ClassifyError(error)
        previous == RecordsOf(h.records, agent_id)
        attempts == PriorSameKind(previous, kind)
        record == [agent_id |-> agent_id, error_type |-> kind, message |-> error.text,
                   recovery_attempts |-> attempts, recoverable |-> TRUE]
        marked == [record EXCEPT !.recoverable = FALSE]
        saved == IF attempts < RetryAttempts
                 THEN Append(previous, record)
                 ELSE Append(Append(previous, marked), marked)
    IN [h EXCEPT !.records = Put(h.records, agent_id, saved),
                 !.files = Put(h.files, agent_id, saved),
                 !.recov = IF attempts < RetryAttempts
                           THEN [@ EXCEPT ![<<agent_id, kind>>] = @ + 1]
                           ELSE @]

\* the body of the loop of monitor_agents for the agents order[i..]; st
\* gives what get_agent_stats answers for each agent in this round
RECURSIVE CheckAgentsFrom(_, _, _, _)
CheckAgentsFrom(h, order, st, i) ==
    IF i > Len(order) THEN h
    ELSE IF order[i] \notin DOMAIN agents[MonitorSup]
    THEN CheckAgentsFrom(h, order, st, i + 1)
    ELSE LET r == CheckResult(order[i], st[order[i]])
             checked == AfterCheck(h, r)
             handled == IF r.status = "unhealthy"
                        THEN AfterHandle(checked, order[i], r.error)
                        ELSE checked
         IN CheckAgentsFrom(handled, order, st, i + 1)

\* the number of ErrorRecords kept so far
RECURSIVE TotalRecords(_, _)
TotalRecords(recs, S) ==
    IF S = {} THEN 0
    ELSE LET a == CHOOSE x \in S : TRUE
         IN Len(recs[a]) + TotalRecords(recs, S \ {a})

\* the model stops handling errors when this many records are kept
MaxErrors == RetryAttempts + 3

HealthStart ==
    /\ health_checks = EmptyMap
    /\ error_records = EmptyMap
    /\ errorFiles = EmptyMap
    /\ recoveries = [p \in RegAgents \X ErrorType |-> 0]
    /\ hmRunning = FALSE
    /\ hc = HealthCheck("none", "unknown", NoStats, NoError)
    /\ hmOp = "init"

\* the state h becomes the state of the Health Monitor
Becomes(h) ==
    /\ health_checks' = h.checks
    /\ error_records' = h.records
    /\ errorFiles' = h.files
    /\ recoveries' = h.recov
    /\ hc' = h.hc

\* check_agent_health, called on its own
CheckAgentHealth(agent_id, st) ==
    /\ Becomes(AfterCheck(HealthState, CheckResult(agent_id, st)))
    /\ hmOp' = "check"
    /\ UNCHANGED hmRunning
    /\ UNCHANGED <<regVars, notHealth>>

\* handle_unhealthy_agent, called on its own with a HealthCheck that
\* carries this error
HandleUnhealthyAgent(agent_id, error) ==
    /\ TotalRecords(error_records, DOMAIN error_records) < MaxErrors
    /\ Becomes(AfterHandle(HealthState, agent_id, error))
    /\ hmOp' = "handle"
    /\ UNCHANGED hmRunning
    /\ UNCHANGED <<regVars, notHealth>>

\* monitor_agents is started
MonitorAgents ==
    /\ ~hmRunning
    /\ hmRunning' = TRUE
    /\ hmOp' = "start"
    /\ UNCHANGED <<health_checks, error_records, errorFiles, recoveries, hc>>
    /\ UNCHANGED <<regVars, notHealth>>

\* one round of the loop of monitor_agents: every registered agent is
\* checked and, if unhealthy, handled; then cleanup_dead_agents
MonitorRound(order, st) ==
    /\ hmRunning
    /\ TotalRecords(error_records, DOMAIN error_records) < MaxErrors
    /\ Becomes(CheckAgentsFrom(HealthState, order, st, 1))
    /\ agents' = [agents EXCEPT ![MonitorSup] = AfterCleanup(MonitorSup)]
    /\ agentsFile' = IF DeadAgents(MonitorSup) # {} THEN AfterCleanup(MonitorSup)
                     ELSE agentsFile
    /\ registered' = registered \ DeadAgents(MonitorSup)
    /\ hmOp' = "round"
    /\ UNCHANGED <<hmRunning, livePids, regOp>>
    /\ UNCHANGED notHealth

\* a new HealthMonitor on the same work directory: _load_error_records
NewMonitor ==
    /\ health_checks' = EmptyMap
    /\ error_records' = errorFiles
    /\ hmRunning' = FALSE
    /\ hmOp' = "new"
    /\ UNCHANGED <<errorFiles, recoveries, hc>>
    /\ UNCHANGED <<regVars, notHealth>>

\* what get_agent_stats reads: at the limits and just above them
StatsInputs ==
    {NoStats} \cup {Stats(cpu, mem) : cpu \in {CpuLimit, CpuLimit + 1},
                                      mem \in {MemoryLimitMb, MemoryLimitMb + 1}}

\* what get_agent_stats reads in the rounds of SpecHealth, the same for
\* every agent of a round
RoundStats == {[a \in RegAgents |-> st] : st \in {NoStats, Stats(95, 100)}}

\* the orders in which list_agents can give the agents
AgentOrders == {<<"master", "worker-1">>, <<"worker-1", "master">>}

\* the errors SpecHealth hands to handle_unhealthy_agent
ErrorInputs == {[text |-> "Request timeout", keywords |-> {"timeout"}]}

\* the PIDs SpecHealth registers agents with
RoundPids == {NoPid, 1}

\* the agents SpecHealth calls handle_unhealthy_agent for on its own
HandledAgents == {"worker-1"}

CheckNext ==
    \/ \E a \in RegAgents, pid \in PidInputs : RegisterAgent(MonitorSup, a, pid)
    \/ \E pid \in 1..MaxPid : PidExits(pid)
    \/ \E a \in RegAgents, st \in StatsInputs : CheckAgentHealth(a, st)

\* what get_agent_stats reads in the rounds of SpecReap
ReapStats == {[a \in RegAgents |-> Stats(95, 100)]}

\* the Health Monitor's rounds and the supervisor's own cleanup_dead_agents
ReapNext ==
    \/ \E a \in RegAgents, pid \in PidInputs : RegisterAgent(MonitorSup, a, pid)
    \/ \E pid \in 1..MaxPid : PidExits(pid)
    \/ CleanupDeadAgents(MonitorSup)
    \/ MonitorAgents
    \/ \E order \in AgentOrders, st \in ReapStats : MonitorRound(order, st)

HealthNext ==
    \/ \E a \in RegAgents, pid \in RoundPids : RegisterAgent(MonitorSup, a, pid)
    \/ \E pid \in RoundPids \ {NoPid} : PidExits(pid)
    \/ MonitorAgents
    \/ \E order \in AgentOrders, st \in RoundStats : MonitorRound(order, st)
    \/ \E a \in HandledAgents, e \in ErrorInputs : HandleUnhealthyAgent(a, e)
    \/ NewMonitor

(***************************************************************************)
(* monitor_agents() as a coroutine next to a caller of stop().  The        *)
(* coroutine is created first and runs when the event loop gets to it;     *)
(* it gives way at every await (in a check, in the sleep between rounds).  *)
(***************************************************************************)
notHealthLoop == <<taskVars, msgVars, mailVars, distVars, sessVars, paneVars,
                   queueVars, cliVars, monVars,
            delVars,
            reapVars,
            wrapVars,
            otherVars>>

\* the coroutine object exists and has not run yet
LoopIdle ==
    /\ loopPc = "created"
    /\ stopCalled = FALSE

\* monitor_agents: self._running = True
LoopBegin ==
    /\ loopPc = "created"
    /\ hmRunning' = TRUE
    /\ loopPc' = "check"
    /\ hmOp' = "start"
    /\ UNCHANGED <<health_checks, error_records, errorFiles, recoveries, hc>>
    /\ UNCHANGED <<stopCalled, regVars, notHealthLoop>>

\* monitor_agents: while self._running
LoopCheck ==
    /\ loopPc = "check"
    /\ loopPc' = IF hmRunning THEN "body" ELSE "done"
    /\ hmOp' = "while"
    /\ UNCHANGED <<health_checks, error_records, errorFiles, recoveries, hmRunning, hc>>
    /\ UNCHANGED <<stopCalled, regVars, notHealthLoop>>

\* monitor_agents: the body of the loop up to asyncio.sleep
LoopBody(order, st) ==
    /\ loopPc = "body"
    /\ TotalRecords(error_records, DOMAIN error_records) < MaxErrors
    /\ Becomes(CheckAgentsFrom(HealthState, order, st, 1))
    /\ agents' = [agents EXCEPT ![MonitorSup] = AfterCleanup(MonitorSup)]
    /\ agentsFile' = IF DeadAgents(MonitorSup) # {} THEN AfterCleanup(MonitorSup)
                     ELSE agentsFile
    /\ registered' = registered \ DeadAgents(MonitorSup)
    /\ loopPc' = "sleep"
    /\ hmOp' = "round"
    /\ UNCHANGED <<hmRunning, livePids, regOp>>
    /\ UNCHANGED <<stopCalled, notHealthLoop>>

\* monitor_agents: asyncio.sleep(self.interval) is over
LoopWake ==
    /\ loopPc = "sleep"
    /\ loopPc' = "check"
    /\ hmOp' = "wake"
    /\ UNCHANGED <<health_checks, error_records, errorFiles, recoveries, hmRunning, hc>>
    /\ UNCHANGED <<stopCalled, regVars, notHealthLoop>>

\* HealthMonitor.stop, called by the owner of the monitor at any time
Stop ==
    /\ hmRunning' = FALSE
    /\ stopCalled' = TRUE
    /\ hmOp' = "stop"
    /\ UNCHANGED <<health_checks, error_records, errorFiles, recoveries, hc>>
    /\ UNCHANGED <<loopPc, regVars, notHealthLoop>>

StopNext ==
    \/ \E a \in RegAgents, pid \in RoundPids : RegisterAgent(MonitorSup, a, pid)
    \/ \E pid \in RoundPids \ {NoPid} : PidExits(pid)
    \/ LoopBegin
    \/ LoopCheck
    \/ \E order \in AgentOrders, st \in RoundStats : LoopBody(order, st)
    \/ LoopWake
    \/ Stop

\* C28: after stop() was called on the Health Monitor the loop of
\* monitor_agents() starts no further round once it checks the flag,
\* whether stop() was called before or after monitor_agents() started.
C28_NoRoundAfterStop ==
    [][stopCalled => ~(loopPc = "check" /\ loopPc' = "body")]_vars


(***************************************************************************)
(* Claims about the Health Monitor, checked under SpecCheck and SpecHealth *)
(***************************************************************************)
\* C11: check(agent) returns Unhealthy with a reason when the Process
\* Supervisor reports the agent not running (whatever the resource usage);
\* otherwise Unknown when the stats are unavailable; otherwise Degraded
\* when CPU% > 90 or memory > 2048 MB; and Healthy in every other case.
C11_Classification ==
    [][\A a \in RegAgents, st \in StatsInputs :
        CheckAgentHealth(a, st) =>
            LET isRunning == IsAgentRunning(MonitorSup, a)
                high == st.cpu_percent > 90 \/ st.memory_mb > 2048
            IN /\ hc'.agent_id = a
               /\ ~isRunning => hc'.status = "unhealthy" /\ hc'.error # NoError
               /\ isRunning /\ ~st.available => hc'.status = "unknown"
               /\ isRunning /\ st.available /\ high => hc'.status = "degraded"
               /\ isRunning /\ st.available /\ ~high => hc'.status = "healthy"]_vars

\* C11 witness: a check of a running agent whose memory alone is above the
\* limit returned Degraded.
C11_Witness ==
    /\ hmOp = "check"
    /\ hc.status = "degraded"
    /\ hc.cpu_percent <= 90
    /\ hc.memory_mb > 2048
    /\ IsAgentRunning(MonitorSup, hc.agent_id)

\* the error records of one kind that the monitor holds for an agent
HeldOfKind(agent_id, kind) ==
    LET held == IF agent_id \in DOMAIN error_records THEN error_records[agent_id] ELSE <<>>
    IN {n \in 1..Len(held) : held[n].error_type = kind}

\* the entries of the monitor's supervisor that have a PID whose process is
\* no longer running
Gone ==
    {a \in DOMAIN agents[MonitorSup] :
        /\ agents[MonitorSup][a].pid # NoPid
        /\ agents[MonitorSup][a].pid \notin livePids}

\* this step removes exactly these entries and leaves the others as they are
RemovesExactlyGone ==
    /\ DOMAIN agents'[MonitorSup] = (DOMAIN agents[MonitorSup]) \ Gone
    /\ \A a \in DOMAIN agents'[MonitorSup] :
          agents'[MonitorSup][a] = agents[MonitorSup][a]

\* C35: cleanup_dead() removes from the registry exactly the entries that
\* have a PID whose process is no longer running, returns their count and
\* leaves every other entry (running, or registered without a PID)
\* unchanged; a round of the Health Monitor does the same after its health
\* checks: every entry it removes was checked and handled in that round.
C35_CleanupExactlyDead ==
    [][/\ CleanupDeadAgents(MonitorSup) =>
             RemovesExactlyGone /\ cleanupRet' = Cardinality(Gone)
       /\ \A order \in AgentOrders, st \in ReapStats :
             MonitorRound(order, st) =>
                /\ RemovesExactlyGone
                /\ \A a \in Gone :
                       Len(RecordsOf(error_records', a))
                          > Len(RecordsOf(error_records, a))]_vars

\* C35 witness: cleanup_dead_agents removed the entry of a process that had
\* ended, returned 1, and left an entry registered without a PID.
C35_Witness ==
    /\ regOp = "cleanup"
    /\ cleanupRet = 1
    /\ \E a \in DOMAIN agents[MonitorSup] : agents[MonitorSup][a].pid = NoPid
    /\ Cardinality(DOMAIN agents[MonitorSup]) = 1

\* C39: after check(agent) returns a HealthCheck, get_health_status(agent)
\* reports that same status, for Unhealthy and Unknown results as well as
\* for Healthy and Degraded.
C39_CacheReflectsLastCheck ==
    [][\A a \in RegAgents, st \in StatsInputs :
          CheckAgentHealth(a, st) =>
             GetHealthStatus(health_checks', a) = hc'.status]_vars

\* C12: for each agent and error kind, recovery is invoked only while the
\* monitor holds fewer than retry_attempts earlier records of that kind for
\* that agent; over a whole run, restarts of the monitor (which reload the
\* history from disk) included, recovery is attempted at most retry_attempts
\* times per agent and kind; and a handling at the ceiling attempts no
\* recovery and leaves its record marked recoverable = false.
C12_RecoveryBounded ==
    /\ [](\A p \in RegAgents \X ErrorType : recoveries[p] <= RetryAttempts)
    /\ [][\A a \in RegAgents, k \in ErrorType :
            /\ recoveries'[<<a, k>>] > recoveries[<<a, k>>]
                  => Cardinality(HeldOfKind(a, k)) < RetryAttempts
            /\ (/\ Cardinality(HeldOfKind(a, k)') > Cardinality(HeldOfKind(a, k))
                /\ Cardinality(HeldOfKind(a, k)) >= RetryAttempts)
                  => /\ recoveries'[<<a, k>>] = recoveries[<<a, k>>]
                     /\ ~error_records'[a][Len(error_records'[a])].recoverable]_vars

\* C12 witness: recovery was attempted retry_attempts times for worker-1
\* and timeouts, and the handling of one more timeout has just left a
\* record marked recoverable = false.
C12_Witness ==
    /\ hmOp = "handle"
    /\ recoveries[<<"worker-1", "timeout">>] = RetryAttempts
    /\ "worker-1" \in DOMAIN error_records
    /\ LET last == error_records["worker-1"][Len(error_records["worker-1"])]
       IN last.error_type = "timeout" /\ ~last.recoverable

(***************************************************************************)
(* More claims about the Task Store: C14 under SpecRebuild, C20 under      *)
(* SpecTask.                                                               *)
(***************************************************************************)
\* C14: a Task Store constructed on a directory that an earlier instance
\* wrote with any sequence of create / assign / update_status / delete
\* holds exactly the task ids the earlier instance held after its last
\* call, each with the same status, assignee, timestamps and result.
C14_RebuildEqual == [][NewTaskManager => tasks' = tasks]_vars

\* C14 witness: a new instance was constructed on a directory that holds a
\* task which was created, assigned and completed with a result.
C14_Witness ==
    /\ op = "new"
    /\ \E id \in DOMAIN tasks :
          /\ tasks[id].status = "completed"
          /\ tasks[id].assigned_to \in Workers
          /\ tasks[id].result = "done"
          /\ tasks[id].completed_at # NoTime

\* C31: completed_at is written only when a task enters a terminal status
\* (completed, failed, cancelled): a task is created without completed_at,
\* and a call changes the completed_at of a task only if it is an
\* update_status to a terminal status, which stamps the time of the call;
\* the task's file records the same completed_at.
C31_CompletedAtOnlyTerminal ==
    [][\A id \in DOMAIN tasks' :
          /\ IF id \in DOMAIN tasks
             THEN tasks'[id].completed_at # tasks[id].completed_at =>
                     /\ op' = "update"
                     /\ tasks'[id].status \in TerminalStatuses
                     /\ tasks'[id].completed_at = now
             ELSE tasks'[id].completed_at = NoTime
          /\ \A d \in Dirs :
                 id \in DOMAIN disk'[d] =>
                    disk'[d][id].data.completed_at = tasks'[id].completed_at]_vars

\* C31 witness: a task that was created, assigned and then set back to
\* pending by update_status has never been in a terminal status and has no
\* completed_at.
C31_Witness ==
    /\ op = "update"
    /\ \E id \in DOMAIN tasks :
          /\ tasks[id].status = "pending"
          /\ tasks[id].assigned_to \in Workers
          /\ tasks[id].started_at # NoTime
          /\ tasks[id].completed_at = NoTime

\* C20: update_status(task_id, s) on a task the store knows succeeds
\* whatever the task's status and whatever s is, and afterwards the task
\* has status s and its file is in the directory of s and in no other
\* status directory; for an id the store does not know it returns failure
\* and changes neither the index nor the files.
C20_UpdateAnyStatus ==
    [][\A id \in TaskIds, s \in StatusSet, o \in Outcomes :
        UpdateTaskStatus(id, s, o[1], o[2]) =>
            IF id \in DOMAIN tasks
            THEN /\ ret'
                 /\ tasks'[id].status = s
                 /\ {d \in Dirs : id \in DOMAIN disk'[d]} = {ExpectedDir(s)}
                 /\ disk'[ExpectedDir(s)][id].data.status = s
            ELSE /\ ~ret'
                 /\ tasks' = tasks
                 /\ disk' = disk]_vars

\* C20 witness: a task that was completed has been returned to pending by
\* update_status and then assigned again.
C20_Witness ==
    /\ op = "assign"
    /\ ret
    /\ \E id \in DOMAIN tasks :
          /\ tasks[id].status = "in_progress"
          /\ tasks[id].completed_at # NoTime
          /\ WhereOnDisk(id) = {"in_progress"}

\* C25: across all scans of the distributor loop a worker notification is
\* sent at most once per task_id: a task_id that is Notified is not
\* notified again by a later scan, and one scan that finds several
\* notification files naming the same task_id sends at most one
\* notification for it.
C25_NotifiedOnce == \A t \in DOMAIN notified : notified[t] <= 1

\* a completion report naming task_id t is in the worker -> master directory
ReportPresent(t) ==
    \E f \in Listing("worker_to_master") : IsReport(f) /\ ExtractTaskId(f.parts) = t

\* how often task_id t was notified
TimesNotified(n, t) == IF t \in DOMAIN n THEN n[t] ELSE 0

\* C26: the distributor's state of a task only moves Unseen -> Notified ->
\* Completed.  A task becomes Notified only in a step that sent its worker
\* a notification successfully (the pane host answered); it becomes
\* Completed only if it is Notified by then, a completion report naming
\* its task_id is in the worker -> master directory and its task file is in
\* the completed directory at that scan; and a task that is Notified stays
\* Notified, a task that is Completed stays Completed.
C26_UnseenNotifiedCompleted ==
    [][/\ \A t \in DOMAIN assignments' :
             /\ assignments'[t].notified
             /\ t \notin DOMAIN assignments =>
                   /\ TimesNotified(notified', t) > TimesNotified(notified, t)
                   /\ paneHost = "up"
             /\ (/\ assignments'[t].completed
                 /\ ~(t \in DOMAIN assignments /\ assignments[t].completed)) =>
                   /\ TimesNotified(notified', t) > 0
                   /\ ReportPresent(t)
                   /\ YamlExists("completed", t)
       /\ \A t \in DOMAIN assignments :
             /\ t \in DOMAIN assignments'
             /\ assignments[t].notified => assignments'[t].notified
             /\ assignments[t].completed => assignments'[t].completed]_vars

\* C26 witness: a task was notified in one round and marked Completed in a
\* later one, while a second report names no task the distributor knows.
C26_Witness ==
    /\ distOp = "scan"
    /\ iteration > 1
    /\ \E t \in DOMAIN assignments :
          /\ assignments[t].completed
          /\ notified[t] = 1
          /\ ~(YamlExists("pending", t))
    /\ \E f \in Listing("worker_to_master") :
          IsReport(f) /\ ExtractTaskId(f.parts) \notin DOMAIN assignments

\* the summary of a set of assignments
CountsOf(asg) ==
    [total |-> Cardinality(DOMAIN asg),
     notified |-> Cardinality({t \in DOMAIN asg : asg[t].notified}),
     completed |-> Cardinality({t \in DOMAIN asg : asg[t].completed}),
     pending |-> Cardinality({t \in DOMAIN asg : asg[t].notified /\ ~asg[t].completed})]

\* a file name that the glob of a scan matches and that names no worker or
\* no task id
Malformed(f) ==
    \/ IsNotification(f) /\ ParseCommFilename(f.parts).task_id = None
    \/ IsReport(f) /\ ExtractTaskId(f.parts) = <<Word("task"), Word("")>>

\* C27: monitor_and_distribute_tasks performs at most max_iterations scan
\* rounds and has returned after the last of them; a round in which every
\* new notification file is malformed (and any report file may be) ends as
\* a round and not the loop, and records nothing for the malformed names;
\* an interrupt ends the loop early, and the summary monitor_command then
\* takes from get_status_summary() holds the counts of everything recorded
\* up to the interrupt.
C27_BoundedLoop ==
    [][/\ iteration' <= MaxIter
       /\ iteration' # iteration =>
             /\ running /\ iteration < MaxIter /\ iteration' = iteration + 1
             /\ running' = (iteration' < MaxIter)
       /\ (running /\ iteration < MaxIter /\ distOp' \in {"scan", "raise"}
           /\ ScanNewTasks = {}) =>
             /\ distOp' = "scan"
             /\ iteration' = iteration + 1
             /\ DOMAIN assignments' = DOMAIN assignments
       /\ distOp' = "interrupt" =>
             /\ ~running'
             /\ \A t \in DOMAIN assignments :
                   t \in DOMAIN assignments' /\ assignments'[t] = assignments[t]
             /\ monStatus' = CountsOf(assignments')
       /\ distOp' = "done" =>
             /\ iteration = MaxIter
             /\ monStatus' = CountsOf(assignments)]_vars

\* C27 witness: the loop was interrupted after its first round, with a
\* malformed notification file and a malformed report in the directories
\* and one task notified.
C27_Witness ==
    /\ distOp = "interrupt"
    /\ iteration = 1
    /\ monStatus = [total |-> 1, notified |-> 1, completed |-> 0, pending |-> 1]
    /\ \E f \in agentFiles : f.dir = "master_to_worker" /\ Malformed(f)
    /\ \E f \in agentFiles : f.dir = "worker_to_master" /\ Malformed(f)

(***************************************************************************)
(* Claims about the loops, checked under SpecDist.                         *)
(***************************************************************************)
\* C13: an error raised inside one round of the Task Distributor loop (the
\* pane host failing while a worker is being notified) is caught within
\* that round: the loop has not ended and goes on to its next round.
C13_LoopSurvivesError == distOp = "raise" => running

\* the history new holds every record of old, unchanged, and n more
Extends(new, old, n) ==
    /\ Len(new) = Len(old) + n
    /\ SubSeq(new, 1, Len(old)) = old

\* C29: the error history of an agent is append-only: a handling of an
\* unhealthy agent (on its own or in a round of the loop) appends exactly
\* one ErrorRecord to that agent's history, the records already in the
\* history stay as they are and none is appended a second time, and after
\* the handling the history file equals the history in memory.
C29_AppendOnly ==
    [][/\ \A a \in HandledAgents, e \in ErrorInputs :
             HandleUnhealthyAgent(a, e) =>
                /\ Extends(RecordsOf(error_records', a), RecordsOf(error_records, a), 1)
                /\ errorFiles' = error_records'
       /\ \A order \in AgentOrders, st \in RoundStats :
             MonitorRound(order, st) =>
                /\ \A a \in RegAgents :
                      \/ Extends(RecordsOf(error_records', a), RecordsOf(error_records, a), 0)
                      \/ Extends(RecordsOf(error_records', a), RecordsOf(error_records, a), 1)
                /\ errorFiles' = error_records']_vars

(***************************************************************************)
(* The start of the agents: create_session starts the agents one after the *)
(* other, each in its pane (_start_agent_in_pane) or as a background       *)
(* process (_spawn_headless_agent), while another invocation of the CLI    *)
(* (hephaestus monitor) sends task notifications to the panes.  A slot is  *)
(* an index of AgentSpecs: 1 is master, i + 1 is worker-i.                 *)
(***************************************************************************)
Slots == 1..Len(AgentSpecs)

WorkerSlots == 2..Len(AgentSpecs)

AgentKinds == {"claude", "codex"}

\* the slot and step after the last step of slot i
NextSlot(i, first) == IF i < Len(AgentSpecs) THEN <<i + 1, first>> ELSE <<i, "done">>

\* create_session is about to start the first agent
PaneStart ==
    /\ paneMode \in {"tmux", "headless"}
    /\ agentKind \in AgentKinds
    /\ personaFile \in BOOLEAN
    /\ paneTitle = [i \in Slots |-> FALSE]
    /\ agentStarted = [i \in Slots |-> FALSE]
    /\ agentInput = [i \in Slots |-> <<>>]
    /\ startPc = <<1, IF paneMode = "tmux" THEN "title" ELSE "spawn">>
    /\ paneOp = "create"

\* no agent is being started
PaneIdle ==
    /\ PaneStart
    /\ paneMode = "tmux"
    /\ agentKind = "claude"
    /\ personaFile

\* _start_agent_in_pane: pane.cmd("select-pane", "-T", agent_name)
SetPaneTitle ==
    /\ startPc[2] = "title"
    /\ paneTitle' = [paneTitle EXCEPT ![startPc[1]] = TRUE]
    /\ startPc' = <<startPc[1], "command">>
    /\ paneOp' = "title"
    /\ UNCHANGED <<paneMode, agentKind, personaFile, agentStarted, agentInput>>
    /\ UNCHANGED notPane

\* _start_agent_in_pane: pane.send_keys(full_command); for codex the
\* persona, if its file exists, is an argument of the command
StartAgentCommand ==
    /\ startPc[2] = "command"
    /\ agentStarted' = [agentStarted EXCEPT ![startPc[1]] = TRUE]
    /\ IF agentKind = "codex"
       THEN /\ agentInput' = [agentInput EXCEPT ![startPc[1]] =
                                 IF personaFile THEN <<"persona">> ELSE <<>>]
            /\ startPc' = NextSlot(startPc[1], "title")
       ELSE /\ startPc' = <<startPc[1], "inject">>
            /\ UNCHANGED agentInput
    /\ paneOp' = "command"
    /\ UNCHANGED <<paneMode, agentKind, personaFile, paneTitle>>
    /\ UNCHANGED notPane

\* _start_agent_in_pane: after time.sleep(3), _inject_persona, which
\* returns at once when the persona file is not there
InjectPersona ==
    /\ startPc[2] = "inject"
    /\ agentInput' = [agentInput EXCEPT ![startPc[1]] =
                         IF personaFile THEN Append(@, "persona") ELSE @]
    /\ startPc' = NextSlot(startPc[1], "title")
    /\ paneOp' = "inject"
    /\ UNCHANGED <<paneMode, agentKind, personaFile, paneTitle, agentStarted>>
    /\ UNCHANGED notPane

\* _spawn_headless_agent: the persona goes into HEPHAESTUS_AGENT_SPEC, the
\* script writes it to the log file and runs the agent command without it
SpawnHeadlessAgent ==
    /\ startPc[2] = "spawn"
    /\ agentStarted' = [agentStarted EXCEPT ![startPc[1]] = TRUE]
    /\ startPc' = NextSlot(startPc[1], "spawn")
    /\ paneOp' = "spawn"
    /\ UNCHANGED <<paneMode, agentKind, personaFile, paneTitle, agentInput>>
    /\ UNCHANGED notPane

\* get_pane_target: a pane whose title holds the agent's name
PaneFound(i) == paneMode = "tmux" /\ paneTitle[i]

\* send_task_notification to worker i - 1, by another process: the keys go
\* to the pane of that title, where the agent reads them once its command
\* was started
NotifyWorkerPane(i) ==
    /\ Len(agentInput[i]) < MaxSends
    /\ IF PaneFound(i)
       THEN /\ agentInput' = [agentInput EXCEPT ![i] =
                                 IF agentStarted[i] THEN Append(@, "task") ELSE @]
            /\ paneOp' = "notified"
       ELSE /\ paneOp' = "not found"
            /\ UNCHANGED agentInput
    /\ UNCHANGED <<paneMode, agentKind, personaFile, paneTitle, agentStarted,
                   startPc>>
    /\ UNCHANGED notPane

PaneNext ==
    \/ SetPaneTitle
    \/ StartAgentCommand
    \/ InjectPersona
    \/ SpawnHeadlessAgent
    \/ \E i \in WorkerSlots : NotifyWorkerPane(i)

(***************************************************************************)
(* Claims about the start of the agents, checked under SpecPane.           *)
(***************************************************************************)
\* C19: in tmux and in headless mode, whatever task notification an agent
\* process has received, it received the persona text before it.
C19_PersonaFirst ==
    \A i \in Slots :
        \A k \in 1..Len(agentInput[i]) :
            agentInput[i][k] = "task"
                => \E j \in 1..(k - 1) : agentInput[i][j] = "persona"

(***************************************************************************)
(* The task queue: list_tasks, get_next_pending_task and cleanup_old_tasks *)
(* of the Task Store.  SpecQueue starts from a store that holds MaxQueue   *)
(* pending tasks, created one after the other with any priorities; the     *)
(* values of the dict come in the order the tasks were created.            *)
(***************************************************************************)
NoFilter == "any"

NoTask == 0

\* a priority_order that ranks the priorities by their names
PriorityOrderByName(p) == IF p = "high" THEN 0 ELSE IF p = "low" THEN 1 ELSE 2

\* priority_order of list_tasks
PriorityOrder(p) == IF p = "high" THEN 0 ELSE IF p = "medium" THEN 1 ELSE 2

\* the sort key of list_tasks
SortKey(t) == <<PriorityOrder(t.priority), t.created_at>>

\* Python's order of two such tuples
KeyLess(a, b) == a[1] < b[1] \/ (a[1] = b[1] /\ a[2] < b[2])

\* list(self._tasks.values())
RECURSIVE ValuesOf(_, _)
ValuesOf(mem, ids) ==
    IF ids = {} THEN <<>>
    ELSE LET k == CHOOSE x \in ids : \A y \in ids : x <= y
         IN <<mem[k]>> \o ValuesOf(mem, ids \ {k})

\* list.sort(key=...) is stable: t goes behind the elements that are not
\* greater than it
InsertStable(acc, t) ==
    LET n == Cardinality({j \in 1..Len(acc) : ~KeyLess(SortKey(t), SortKey(acc[j]))})
    IN SubSeq(acc, 1, n) \o <<t>> \o SubSeq(acc, n + 1, Len(acc))

RECURSIVE SortFrom(_, _, _)
SortFrom(s, i, acc) ==
    IF i > Len(s) THEN acc ELSE SortFrom(s, i + 1, InsertStable(acc, s[i]))

\* TaskManager.list_tasks
ListTasks(mem, status, assigned_to, priority) ==
    LET all == ValuesOf(mem, DOMAIN mem)
        byStatus == IF status # NoFilter
                    THEN SelectSeq(all, LAMBDA t : t.status = status) ELSE all
        byAgent == IF assigned_to # NoFilter
                   THEN SelectSeq(byStatus, LAMBDA t : t.assigned_to = assigned_to)
                   ELSE byStatus
        byPriority == IF priority # NoFilter
                      THEN SelectSeq(byAgent, LAMBDA t : t.priority = priority)
                      ELSE byAgent
    IN SortFrom(byPriority, 1, <<>>)

\* TaskManager.get_next_pending_task: the id of the task, or NoTask
GetNextPendingTask(mem, priority) ==
    LET pending_tasks == ListTasks(mem, "pending", NoFilter, priority)
    IN IF pending_tasks = <<>> THEN NoTask ELSE pending_tasks[1].id

IdsOf(s) == [i \in 1..Len(s) |-> s[i].id]

\* the creation times of MaxQueue tasks created one after the other
CreationTimes ==
    {c \in [1..MaxQueue -> 1..MaxTime] :
        \A i, j \in 1..MaxQueue : i < j => c[i] <= c[j]}

\* a TaskManager after MaxQueue calls of create_task
QueueStart ==
    /\ \E p \in [1..MaxQueue -> TaskPriority], c \in CreationTimes :
          /\ tasks = [i \in 1..MaxQueue |-> NewTask(i, p[i], c[i])]
          /\ disk = [d \in Dirs |->
                       IF d = "pending"
                       THEN [i \in 1..MaxQueue |-> ToJson(NewTask(i, p[i], c[i]))]
                       ELSE EmptyMap]
    /\ nextId = MaxQueue + 1
    /\ now = MaxTime
    /\ op = "create"
    /\ ret = TRUE
    /\ pc = [at |-> "idle", id |-> 0, i |-> 0]
    /\ committed = 1..MaxQueue

\* nothing was listed, taken or cleaned up
QueueIdle ==
    /\ listed = [status |-> NoFilter, assigned_to |-> NoFilter,
                 priority |-> NoFilter, result |-> <<>>]
    /\ nextTask = NoTask
    /\ taken = <<>>
    /\ removed = 0

notTaskQueue == <<msgVars, mailVars, distVars, sessVars, regVars, healthVars, paneVars,
            cliVars,
            monVars,
            loopVars,
            delVars,
            reapVars,
            wrapVars,
            otherVars>>

\* a call of list_tasks
ListCall(status, assigned_to, priority) ==
    /\ op' = "list"
    /\ listed' = [status |-> status, assigned_to |-> assigned_to,
                  priority |-> priority,
                  result |-> IdsOf(ListTasks(tasks, status, assigned_to, priority))]
    /\ UNCHANGED <<tasks, disk, nextId, now, ret, pc, committed>>
    /\ UNCHANGED <<nextTask, taken, removed>>
    /\ UNCHANGED notTaskQueue

\* get_next_pending_task, and assign_task of the task it returned
TakeNext(agent) ==
    /\ op' = "next"
    /\ nextTask' = GetNextPendingTask(tasks, NoFilter)
    /\ listed' = [status |-> "pending", assigned_to |-> NoFilter,
                  priority |-> NoFilter,
                  result |-> IdsOf(ListTasks(tasks, "pending", NoFilter, NoFilter))]
    /\ IF GetNextPendingTask(tasks, NoFilter) = NoTask
       THEN UNCHANGED <<tasks, disk, ret, taken>>
       ELSE LET t == [tasks[GetNextPendingTask(tasks, NoFilter)] EXCEPT
                         !.assigned_to = agent,
                         !.status = "in_progress",
                         !.started_at = now]
            IN /\ tasks' = Put(tasks, t.id, t)
               /\ disk' = SaveTask(disk, t)
               /\ ret' = TRUE
               /\ taken' = Append(taken, t.id)
    /\ UNCHANGED <<nextId, now, pc, committed>>
    /\ UNCHANGED removed
    /\ UNCHANGED notTaskQueue

\* get_next_pending_task(priority): the caller keeps what it returned
NextPending(priority) ==
    /\ op' = "next_pending"
    /\ nextTask' = GetNextPendingTask(tasks, priority)
    /\ listed' = [status |-> "pending", assigned_to |-> NoFilter,
                  priority |-> priority,
                  result |-> IdsOf(ListTasks(tasks, "pending", NoFilter, priority))]
    /\ UNCHANGED <<tasks, disk, nextId, now, ret, pc, committed>>
    /\ UNCHANGED <<taken, removed>>
    /\ UNCHANGED notTaskQueue

\* the filters SpecQueue lists with
StatusFilters == {NoFilter, "in_progress"}

AgentFilters == {NoFilter, "worker-1"}

PriorityFilters == {NoFilter, "high"}

QueueNext ==
    \/ \E s \in StatusFilters, a \in AgentFilters, p \in PriorityFilters :
          ListCall(s, a, p)
    \/ \E a \in RebuildWorkers : TakeNext(a)
    \/ \E p \in TaskPriority : NextPending(p)

(***************************************************************************)
(* Claims about the task queue, checked under SpecQueue.                   *)
(***************************************************************************)
\* high before medium before low
RankOf(id) ==
    IF tasks[id].priority = "high" THEN 1
    ELSE IF tasks[id].priority = "medium" THEN 2 ELSE 3

\* task a does not come behind task b in the queue
NotBehind(a, b) ==
    \/ RankOf(a) < RankOf(b)
    \/ RankOf(a) = RankOf(b) /\ tasks[a].created_at <= tasks[b].created_at

MatchesFilters(id) ==
    /\ listed.status # NoFilter => tasks[id].status = listed.status
    /\ listed.assigned_to # NoFilter => tasks[id].assigned_to = listed.assigned_to
    /\ listed.priority # NoFilter => tasks[id].priority = listed.priority

PendingIds == {id \in DOMAIN tasks : tasks[id].status = "pending"}

\* C21: list_tasks returns exactly the tasks that match all given filters,
\* each once, ordered by priority rank (high, medium, low) and then by
\* ascending creation time; get_next_pending_task returns none only when no
\* task is pending, and otherwise a pending task that no pending task comes
\* before, so that the tasks taken and assigned one after the other come out
\* high, then medium, then low, and by creation time within one priority.
C21_QueueOrder ==
    /\ op = "list" =>
          /\ {listed.result[i] : i \in 1..Len(listed.result)}
                = {id \in DOMAIN tasks : MatchesFilters(id)}
          /\ \A i, j \in 1..Len(listed.result) :
                i < j => /\ listed.result[i] # listed.result[j]
                         /\ NotBehind(listed.result[i], listed.result[j])
    /\ op = "next" =>
          IF nextTask = NoTask THEN PendingIds = {}
          ELSE /\ taken # <<>>
               /\ taken[Len(taken)] = nextTask
               /\ tasks[nextTask].status = "in_progress"
    /\ \A i, j \in 1..Len(taken) : i < j => NotBehind(taken[i], taken[j])
    /\ \A i \in 1..Len(taken) : \A id \in PendingIds : NotBehind(taken[i], id)

\* the pending tasks whose priority is p or higher
PendingAtLeast(p) ==
    {id \in DOMAIN tasks :
        /\ tasks[id].status = "pending"
        /\ PriorityOrder(tasks[id].priority) <= PriorityOrder(p)}

\* C32: next_pending(p), called with a minimum priority p, returns the first
\* pending task in queue order whose priority is at least p, or none when no
\* pending task reaches that priority.
C32_NextPendingAtLeast ==
    op = "next_pending" =>
       IF PendingAtLeast(listed.priority) = {}
       THEN nextTask = NoTask
       ELSE /\ nextTask \in PendingAtLeast(listed.priority)
            /\ \A other \in PendingAtLeast(listed.priority) :
                   NotBehind(nextTask, other)

\* C21 witness: tasks of priority low, high, medium were created in that
\* order, and the queue was drained: high first, then medium, then low, and
\* then nothing.
C21_Witness ==
    /\ op = "next"
    /\ nextTask = NoTask
    /\ taken = <<2, 3, 1>>
    /\ tasks[1].priority = "low"
    /\ tasks[2].priority = "high"
    /\ tasks[3].priority = "medium"
    /\ listed.result = <<>>

(***************************************************************************)
(* cleanup_old_tasks of the Task Store; the unit of time is one day.       *)
(***************************************************************************)
\* a cleanup that does not look at the status of a task
OldTasksAnyStatus(mem, cutoff_time) ==
    {id \in DOMAIN mem :
        /\ mem[id].completed_at # NoTime
        /\ mem[id].completed_at < cutoff_time}

\* cleanup_old_tasks: the tasks it calls delete_task for
OldTasks(mem, cutoff_time) ==
    {id \in DOMAIN mem :
        /\ mem[id].status \in TerminalStatuses
        /\ mem[id].completed_at # NoTime
        /\ mem[id].completed_at < cutoff_time}

\* TaskManager.cleanup_old_tasks
CleanupOldTasks(days) ==
    LET old == OldTasks(tasks, now - days)
    IN /\ op' = "cleanup"
       /\ tasks' = [id \in (DOMAIN tasks) \ old |-> tasks[id]]
       /\ disk' = [d \in Dirs |->
                     [f \in (DOMAIN disk[d]) \ {id \in old : GetTaskDir(tasks[id].status) = d}
                        |-> disk[d][f]]]
       /\ removed' = Cardinality(old)
       /\ committed' = committed \ old
       /\ UNCHANGED <<nextId, now, ret, pc>>
       /\ UNCHANGED <<listed, nextTask, taken>>
       /\ UNCHANGED notTaskQueue

\* the ages SpecCleanup cleans up with
CleanupDays == {0, 1}

CleanupNext ==
    \/ RebuildNext
    \/ \E days \in CleanupDays : CleanupOldTasks(days)

(***************************************************************************)
(* Claims about cleanup_old_tasks, checked under SpecCleanup.              *)
(***************************************************************************)
\* the files of task id, by directory
FilesOf(dk, id) == [d \in Dirs |-> IF id \in DOMAIN dk[d] THEN <<dk[d][id]>> ELSE <<>>]

\* C22: cleanup_old_tasks(days) removes only tasks that are in a terminal
\* status (completed, failed, cancelled) with a completed_at earlier than
\* the cutoff; every other task is left in memory and on disk as it was,
\* and the return value is the number of tasks removed.
C22_CleanupOnlyOld ==
    [][\A days \in CleanupDays :
         CleanupOldTasks(days) =>
            /\ DOMAIN tasks' \subseteq DOMAIN tasks
            /\ \A id \in DOMAIN tasks :
                  IF /\ tasks[id].status \in {"completed", "failed", "cancelled"}
                     /\ tasks[id].completed_at # NoTime
                     /\ tasks[id].completed_at < now - days
                  THEN TRUE
                  ELSE /\ id \in DOMAIN tasks'
                       /\ tasks'[id] = tasks[id]
                       /\ FilesOf(disk', id) = FilesOf(disk, id)
            /\ removed' = Cardinality((DOMAIN tasks) \ (DOMAIN tasks'))
            /\ \A id \in (DOMAIN tasks) \ (DOMAIN tasks') :
                  FilesOf(disk', id) = [d \in Dirs |-> <<>>]]_vars

\* C22 witness: a cleanup removed the one task of the store, which had
\* failed before the cutoff, and returned 1.
C22_Witness ==
    /\ op = "cleanup"
    /\ removed = 1
    /\ tasks = EmptyMap
    /\ \A d \in Dirs : disk[d] = EmptyMap
    /\ nextId > 1

(***************************************************************************)
(* The attach and kill commands (cli.py).  The session manager is seen     *)
(* through the three calls the commands make: session_exists(),            *)
(* create_session() and attach(), kill_session().                          *)
(***************************************************************************)
\* the agent types of the configuration (AGENT_COMMANDS)
AgentTypes == {"claude", "gemini", "codex"}

\* no command has ended yet
NoExit == -1

\* click refuses an option the command does not declare (attach_command
\* declares --create / -c only, cli.py:134-140): usage error
UsageErrorExit == 2

CliStart ==
    /\ initialized \in BOOLEAN
    /\ cliSession \in BOOLEAN
    /\ cliSession => initialized
    /\ envAgent \in AgentTypes
    /\ created = 0
    /\ attached = 0
    /\ exitCode = NoExit
    /\ cliArgs = [command |-> None, create |-> FALSE, change_agent |-> None,
                  force |-> FALSE]

CliIdle ==
    /\ initialized = TRUE
    /\ cliSession = FALSE
    /\ envAgent = "claude"
    /\ created = 0
    /\ attached = 0
    /\ exitCode = NoExit
    /\ cliArgs = [command |-> None, create |-> FALSE, change_agent |-> None,
                  force |-> FALSE]

\* attach_command(create); change_agent is the value of a --change-agent
\* option on the command line (None: not given), attachFails is attach()
\* raising (the tmux client cannot take the terminal)
AttachCommand(create, change_agent, attachFails) ==
    /\ cliArgs' = [command |-> "attach", create |-> create,
                   change_agent |-> change_agent, force |-> FALSE]
    /\ IF change_agent # None
       THEN \* the option parser leaves before the body runs
            /\ exitCode' = UsageErrorExit
            /\ created' = 0
            /\ attached' = 0
            /\ UNCHANGED <<initialized, cliSession, envAgent>>
       ELSE IF ~initialized
       THEN /\ exitCode' = 1
            /\ created' = 0
            /\ attached' = 0
            /\ UNCHANGED <<initialized, cliSession, envAgent>>
       ELSE IF cliSession
       THEN /\ attached' = 1
            /\ created' = 0
            /\ exitCode' = IF attachFails THEN 1 ELSE 0
            /\ UNCHANGED <<initialized, cliSession, envAgent>>
       ELSE IF create
       THEN /\ created' = 1
            /\ cliSession' = TRUE
            /\ attached' = 1
            /\ exitCode' = IF attachFails THEN 1 ELSE 0
            /\ UNCHANGED <<initialized, envAgent>>
       ELSE \* "Session Not Found"
            /\ exitCode' = 1
            /\ created' = 0
            /\ attached' = 0
            /\ UNCHANGED <<initialized, cliSession, envAgent>>
    /\ UNCHANGED notCli

\* kill_command(force); confirmed is the answer to click.confirm
KillCommand(force, confirmed) ==
    /\ cliArgs' = [command |-> "kill", create |-> FALSE, change_agent |-> None,
                   force |-> force]
    /\ created' = 0
    /\ attached' = 0
    /\ exitCode' = 0
    /\ cliSession' = IF initialized /\ cliSession /\ (force \/ confirmed)
                     THEN FALSE
                     ELSE cliSession
    /\ UNCHANGED <<initialized, envAgent>>
    /\ UNCHANGED notCli

ChangeAgentArgs == AgentTypes \cup {None}

CliNext ==
    \/ \E create \in BOOLEAN, change_agent \in ChangeAgentArgs,
          attachFails \in BOOLEAN :
           AttachCommand(create, change_agent, attachFails)
    \/ \E force \in BOOLEAN, confirmed \in BOOLEAN :
           KillCommand(force, confirmed)

\* C23: the agent type is changed through attach only while no session is
\* running.  An attach that asks for another agent type while the session
\* exists ends with exit code 1 and leaves the agent environment as it was;
\* with no session and --create it switches the environment to the new
\* type, creates the session once and attaches once.
C23_ChangeAgentOnlyWithoutSession ==
    [][\A create \in BOOLEAN, change_agent \in AgentTypes :
         (/\ initialized
          /\ change_agent # envAgent
          /\ AttachCommand(create, change_agent, FALSE))
         => IF cliSession
            THEN exitCode' = 1 /\ envAgent' = envAgent
            ELSE create => /\ exitCode' = 0
                           /\ envAgent' = change_agent
                           /\ created' = 1
                           /\ attached' = 1]_vars

(***************************************************************************)
(* The specifications.                                                     *)
(***************************************************************************)
InitTask == TaskStart /\ MsgIdle /\ MailStart /\ DistStart /\ SessIdle /\ RegStart /\ HealthStart /\ PaneIdle /\ QueueIdle /\ CliIdle /\ MonIdle /\ LoopIdle /\ DelIdle /\ ReapIdle /\ WrapIdle /\ OtherIdle

SpecTask == InitTask /\ [][TaskNext]_vars

SpecCrash == InitTask /\ [][CrashNext]_vars

SpecRebuild == InitTask /\ [][RebuildNext]_vars

InitMsg == TaskStart /\ MsgStart /\ MailStart /\ DistStart /\ SessIdle /\ RegStart /\ HealthStart /\ PaneIdle /\ QueueIdle /\ CliIdle /\ MonIdle /\ LoopIdle /\ DelIdle /\ ReapIdle /\ WrapIdle /\ OtherIdle

SpecMsg == InitMsg /\ [][MsgNext]_vars

InitMail == TaskStart /\ MsgIdle /\ MailStart /\ DistStart /\ SessIdle /\ RegStart /\ HealthStart /\ PaneIdle /\ QueueIdle /\ CliIdle /\ MonIdle /\ LoopIdle /\ DelIdle /\ ReapIdle /\ WrapIdle /\ OtherIdle

SpecMail == InitMail /\ [][MailNext]_vars

SpecRace == InitMail /\ [][RaceNext]_vars

InitDist == TaskStart /\ MsgIdle /\ MailStart /\ DistStart /\ SessIdle /\ RegStart /\ HealthStart /\ PaneIdle /\ QueueIdle /\ CliIdle /\ MonIdle /\ LoopIdle /\ DelIdle /\ ReapIdle /\ WrapIdle /\ OtherIdle

SpecDist == InitDist /\ [][DistNext]_vars

InitSess == TaskStart /\ MsgIdle /\ MailStart /\ DistStart /\ SessStart /\ RegStart /\ HealthStart /\ PaneIdle /\ QueueIdle /\ CliIdle /\ MonIdle /\ LoopIdle /\ DelIdle /\ ReapIdle /\ WrapIdle /\ OtherIdle

SpecSess == InitSess /\ [][SessNext]_vars

InitReg == TaskStart /\ MsgIdle /\ MailStart /\ DistStart /\ SessIdle /\ RegStart /\ HealthStart /\ PaneIdle /\ QueueIdle /\ CliIdle /\ MonIdle /\ LoopIdle /\ DelIdle /\ ReapIdle /\ WrapIdle /\ OtherIdle

SpecReg == InitReg /\ [][RegNext]_vars

InitCheck == TaskStart /\ MsgIdle /\ MailStart /\ DistStart /\ SessIdle /\ RegStart /\ HealthStart /\ PaneIdle /\ QueueIdle /\ CliIdle /\ MonIdle /\ LoopIdle /\ DelIdle /\ ReapIdle /\ WrapIdle /\ OtherIdle

SpecCheck == InitCheck /\ [][CheckNext]_vars

InitHealth == TaskStart /\ MsgIdle /\ MailStart /\ DistStart /\ SessIdle /\ RegStart /\ HealthStart /\ PaneIdle /\ QueueIdle /\ CliIdle /\ MonIdle /\ LoopIdle /\ DelIdle /\ ReapIdle /\ WrapIdle /\ OtherIdle

SpecHealth == InitHealth /\ [][HealthNext]_vars

InitPane == TaskStart /\ MsgIdle /\ MailStart /\ DistStart /\ SessIdle /\ RegStart /\ HealthStart /\ PaneStart /\ QueueIdle /\ CliIdle /\ MonIdle /\ LoopIdle /\ DelIdle /\ ReapIdle /\ WrapIdle /\ OtherIdle

SpecPane == InitPane /\ [][PaneNext]_vars

InitQueue == QueueStart /\ MsgIdle /\ MailStart /\ DistStart /\ SessIdle /\ RegStart /\ HealthStart /\ PaneIdle /\ QueueIdle /\ CliIdle /\ MonIdle /\ LoopIdle /\ DelIdle /\ ReapIdle /\ WrapIdle /\ OtherIdle

SpecQueue == InitQueue /\ [][QueueNext]_vars

SpecCleanup == InitTask /\ [][CleanupNext]_vars

InitCli == TaskStart /\ MsgIdle /\ MailStart /\ DistStart /\ SessIdle /\ RegStart /\ HealthStart /\ PaneIdle /\ QueueIdle /\ CliStart /\ MonIdle /\ LoopIdle /\ DelIdle /\ ReapIdle /\ WrapIdle /\ OtherIdle

SpecCli == InitCli /\ [][CliNext]_vars

SpecScan == InitDist /\ [][ScanNext]_vars

SpecStop == InitHealth /\ [][StopNext]_vars

SpecDelete == InitMail /\ [][DeleteNext]_vars

SpecReap == InitHealth /\ [][ReapNext]_vars

SpecCreate == InitSess /\ [][CreateNext]_vars

SpecTwo == InitTask /\ [][TwoNext]_vars

InitKill == InitSess /\ ~tmux_available /\ OtherIdle

SpecKill == InitKill /\ [][KillNext]_vars /\ WrapperFairness

====
